---- MODULE Spec2Model ----
(***************************************************************************)
(* Model of calculate_itr_values.py: exchange-rate lookup, month-end       *)
(* reference dates, valuation of dividend/buy/sale rows, FIFO matching of  *)
(* sales to purchases, capital-gain totals, and the asset-ledger and       *)
(* cash-ledger summaries with their peak computations.                     *)
(*                                                                         *)
(* Units.  Timestamps are minutes since 1970-01-01 00:00.  Share counts    *)
(* are tenths of a share.  USD prices and USD balances are cents.          *)
(* Exchange rates are hundredths of a rupee per dollar.  INR amounts are   *)
(* kept at the precision the arithmetic produces and carry their unit in   *)
(* the name: paise (1/100), milli (1/1000), 1e-4 or 1e-5 rupee.            *)
(***************************************************************************)
EXTENDS Integers, Sequences, FiniteSets, TLC

VARIABLES
    rates_df,          \* rate table: sequence of [DATE, TT_BUY]
    date_normalized,   \* cached DATE_NORMALIZED column: [present, col]
    target_date,       \* argument of the last stand-alone lookup
    lookup,            \* result of the last stand-alone lookup
    rpc,               \* position of the stand-alone lookup driver
    buy_rows,          \* ESPP-Buy sheet rows: [cell, date, fmv_usd, shares]
    sale_rows,         \* ESPP-Sale sheet rows: [cell, date, fmv_usd, shares]
    buy_df,            \* espp_buy_results
    sale_df,           \* espp_sale_results
    buy_remaining,     \* 'Shares Remaining' column of buy_remaining
    matched_results,   \* records appended by match_sales_to_purchases
    sale_idx,          \* outer loop position of match_sales_to_purchases
    buy_idx,           \* inner loop position of match_sales_to_purchases
    shares_to_sell,    \* outstanding shares of the current sale
    warnings,          \* printed unmatched-share warnings: [sale, unmatched]
    totals,            \* main's capital gain sums of the instrument class
    mpc,               \* position of main in the buy/sale/match pipeline
    cash_rows,         \* Cash sheet rows: [date, type, espp, rsu]
    cash_out,          \* what process_cash_sheet left main with
    cpc,               \* position of main around process_cash_sheet
    given_date,        \* argument of get_last_day_of_preceding_month
    last_day,          \* what get_last_day_of_preceding_month returned
    lpc,               \* position of the month-end driver
    div_rows,          \* Dividend_FY sheet rows: [cell, date, value, tax]
    dividend_results,  \* dividend_results
    fa_rows,           \* ESPP-Assets sheet rows
    hist,              \* daily price series of the ticker: [date, Close]
    price_source,      \* how the price source behaves in this run
    fa_out,            \* what process_schedule_fa left main with
    fpc                \* position of main around process_schedule_fa

rateVars == <<rates_df, date_normalized, target_date, lookup, rpc>>

matchVars == <<buy_rows, sale_rows, buy_df, sale_df, buy_remaining, matched_results,
               sale_idx, buy_idx, shares_to_sell, warnings, totals, mpc>>

cashVars == <<cash_rows, cash_out, cpc>>

monthVars == <<given_date, last_day, lpc>>

divVars == <<div_rows, dividend_results>>

faVars == <<fa_rows, hist, price_source, fa_out, fpc>>

vars == <<rateVars, matchVars, cashVars, monthVars, divVars, faVars>>

----------------------------------------------------------------------------
(* Calendar arithmetic of pandas Timestamps.                               *)

MinutesPerDay == 1440

\* days since 1970-01-01 of the civil date y-m-d (proleptic Gregorian)
DaysFromCivil(y, m, d) ==
    LET yy  == IF m <= 2 THEN y - 1 ELSE y
        era == yy \div 400
        yoe == yy - era * 400
        mp  == (m + 9) % 12
        doy == (153 * mp + 2) \div 5 + d - 1
        doe == yoe * 365 + yoe \div 4 - yoe \div 100 + doy
    IN  era * 146097 + doe - 719468

\* civil date [y, m, d] of a day number
CivilFromDays(z) ==
    LET zz  == z + 719468
        era == zz \div 146097
        doe == zz - era * 146097
        yoe == (doe - doe \div 1460 + doe \div 36524 - doe \div 146096) \div 365
        doy == doe - (365 * yoe + yoe \div 4 - yoe \div 100)
        mp  == (5 * doy + 2) \div 153
        d   == doy - (153 * mp + 2) \div 5 + 1
        m   == IF mp < 10 THEN mp + 3 ELSE mp - 9
        y   == yoe + era * 400
    IN  [y |-> IF m <= 2 THEN y + 1 ELSE y, m |-> m, d |-> d]

\* pd.Timestamp for y-m-d hh:mm
Timestamp(y, m, d, hh, mm) == DaysFromCivil(y, m, d) * MinutesPerDay + hh * 60 + mm

\* Timestamp.normalize(): strip the time of day
Normalize(ts) == ts - (ts % MinutesPerDay)

\* variant of ReplaceDay1 that leaves the day of the month as it is
ReplaceDay1_KeepDay(ts) == ts

\* Timestamp.replace(day=1): same month and time of day, day 1
ReplaceDay1(ts) ==
    LET c == CivilFromDays(ts \div MinutesPerDay)
    IN  DaysFromCivil(c.y, c.m, 1) * MinutesPerDay + (ts % MinutesPerDay)

\* (a - b).days of a Timedelta: whole days, floored
TimedeltaDays(a, b) == (a - b) \div MinutesPerDay

\* variant of get_last_day_of_preceding_month that returns the date itself
get_last_day_of_preceding_month_SameDay(date_val) == date_val

get_last_day_of_preceding_month(date_val) ==
    LET first_of_current_month == ReplaceDay1(date_val)
        last_of_previous_month == first_of_current_month - MinutesPerDay
    IN  last_of_previous_month

----------------------------------------------------------------------------
(* Decimal arithmetic.                                                     *)

\* round(x, n) of Python: x is num/den units, the result is whole units,
\* nearest, ties to the even neighbour
RoundDiv(num, den) ==
    LET q == num \div den
        r == num % den
    IN  IF 2 * r < den THEN q
        ELSE IF 2 * r > den THEN q + 1
        ELSE IF q % 2 = 0 THEN q ELSE q + 1

\* round(a * b, n) where a * b is in 1/den units: RoundDiv(a * b, den),
\* computed on b's quotient and remainder by den so that the product stays
\* within 32-bit integers
MulRoundDiv(a, b, den) ==
    LET bh == b \div den
        bl == b % den
        q  == a * bh + (a * bl) \div den
        r  == (a * bl) % den
    IN  IF 2 * r < den THEN q
        ELSE IF 2 * r > den THEN q + 1
        ELSE IF q % 2 = 0 THEN q ELSE q + 1

----------------------------------------------------------------------------
(* get_exchange_rate                                                       *)

None == [found |-> FALSE, rate |-> 0, date |-> 0]

\* variant of SelectIdx that keeps the rows dated after the bound too
SelectIdx_NoDateFilter(col, bound, i) == [k \in 1..(Len(col) - i + 1) |-> k + i - 1]

RECURSIVE SelectIdx(_, _, _)
\* positions i..Len(col) of col whose value is <= bound, in table order
SelectIdx(col, bound, i) ==
    IF i > Len(col) THEN <<>>
    ELSE IF col[i] <= bound THEN <<i>> \o SelectIdx(col, bound, i + 1)
    ELSE SelectIdx(col, bound, i + 1)

\* the orders sort_values('DATE', ascending=False) can leave the rows in:
\* every arrangement of the selected rows that is descending by DATE (rows
\* with equal DATE may come out in either order)
SortValuesDesc(df, idx) ==
    LET n == Len(idx)
        Perms == { p \in [1..n -> 1..n] : \A i, j \in 1..n : i # j => p[i] # p[j] }
    IN  { [i \in 1..n |-> df[idx[p[i]]]] : p \in
            { q \in Perms : \A i \in 1..n : \A j \in 1..n :
                i < j => df[idx[q[i]]].DATE >= df[idx[q[j]]].DATE } }

RECURSIVE FirstNonZero(_, _)
\* the iterrows loop: first row, from position i on, whose rate is > 0
FirstNonZero(available, i) ==
    IF i > Len(available) THEN None
    ELSE IF available[i].TT_BUY > 0
         THEN [found |-> TRUE, rate |-> available[i].TT_BUY, date |-> available[i].DATE]
         ELSE FirstNonZero(available, i + 1)

\* DATE_NORMALIZED column as computed from the table
NormalizedColumn(df) == [i \in 1..Len(df) |-> Normalize(df[i].DATE)]

\* the results get_exchange_rate(target_date, df) can return, given the
\* DATE_NORMALIZED column col
get_exchange_rate_with(target, df, col) ==
    LET target_ts == Normalize(target)
        idx       == SelectIdx(col, target_ts, 1)
    IN  IF idx = <<>> THEN {None}
        ELSE { FirstNonZero(available, 1) : available \in SortValuesDesc(df, idx) }

get_exchange_rate(target, df) == get_exchange_rate_with(target, df, NormalizedColumn(df))

----------------------------------------------------------------------------
(* Stand-alone lookups against a rate table.                               *)

MaxRates == 2

RateTableDates ==
    { Timestamp(2023, 4, 28, 0, 0), Timestamp(2023, 4, 28, 9, 0),
      Timestamp(2023, 4, 30, 0, 0), Timestamp(2023, 4, 30, 9, 0),
      Timestamp(2023, 5, 1, 0, 0),  Timestamp(2023, 5, 1, 9, 0) }

\* TT BUY after load_sbi_rates: a number, 0.0 where the cell was missing
RateValues == { 0, -100, 8250, 8300 }

RateEntries == [DATE : RateTableDates, TT_BUY : RateValues]

TargetDates ==
    { Timestamp(2023, 4, 27, 0, 0), Timestamp(2023, 4, 30, 0, 0),
      Timestamp(2023, 4, 30, 15, 30), Timestamp(2023, 5, 2, 0, 0) }

SeqsUpTo(S, n) == UNION { [1..k -> S] : k \in 0..n }

NoColumn == [present |-> FALSE, col |-> <<>>]

RateIdle ==
    /\ date_normalized = NoColumn
    /\ target_date = 0
    /\ lookup = None
    /\ rpc = "idle"

\* one call get_exchange_rate(D, rates_df), the DATE_NORMALIZED column being
\* added to rates_df by the first call and reused by the later ones
Lookup(D) ==
    /\ rpc \in {"idle", "looked"}
    /\ LET col == IF date_normalized.present THEN date_normalized.col
                  ELSE NormalizedColumn(rates_df)
       IN  /\ date_normalized' = [present |-> TRUE, col |-> col]
           /\ lookup' \in get_exchange_rate_with(D, rates_df, col)
    /\ target_date' = D
    /\ rpc' = "looked"
    /\ UNCHANGED <<rates_df, matchVars, cashVars, monthVars, divVars, faVars>>

----------------------------------------------------------------------------
(* Stand-alone calls of get_last_day_of_preceding_month.                   *)

MonthIdle == last_day = 0

\* the call get_last_day_of_preceding_month(given_date)
PrecedingMonth ==
    /\ lpc = "idle"
    /\ last_day' = get_last_day_of_preceding_month(given_date)
    /\ lpc' = "done"
    /\ UNCHANGED <<given_date, rateVars, matchVars, cashVars, divVars, faVars>>

----------------------------------------------------------------------------
(* process_dividend_sheet / process_espp_buy_sheet /                       *)
(* process_espp_sale_sheet                                                 *)
(*                                                                         *)
(* A sheet row carries the kind of its date cell in the field cell:        *)
(* "date" when pd.to_datetime turns it into the date in the field date,    *)
(* "text" when pd.to_datetime raises on it, "blank" for an empty cell,     *)
(* which pd.to_datetime turns into NaT without raising.                    *)

\* variant of ValueRow that values the total from the rounded USD total
ValueRow_RoundedTotal(row, r) ==
    LET fmv_usd   == row.fmv_usd
        shares    == row.shares
        total_usd == RoundDiv(fmv_usd * shares, 10)              \* cents
        fmv_inr   == IF r.found THEN fmv_usd * r.rate ELSE 0     \* 1e-4 rupee
    IN  [ Transaction_Date |-> row.date,
          Reference_Date   |-> get_last_day_of_preceding_month(row.date),
          rate             |-> r,
          FMV_USD          |-> fmv_usd,
          Shares           |-> shares,
          Total_USD        |-> total_usd,
          FMV_INR          |-> RoundDiv(fmv_inr, 100),
          Total_INR        |-> IF r.found THEN RoundDiv(total_usd * r.rate, 100)
                               ELSE 0 ]

\* one result row: fmv_usd in cents, shares in tenths, rate in 1/100 rupee;
\* r is what get_exchange_rate returned for the reference date
ValueRow(row, r) ==
    LET fmv_usd   == row.fmv_usd
        shares    == row.shares
        total_usd == fmv_usd * shares                          \* 1/1000 USD
        fmv_inr   == IF r.found THEN fmv_usd * r.rate ELSE 0   \* 1e-4 rupee
    IN  [ Transaction_Date |-> row.date,
          Reference_Date   |-> get_last_day_of_preceding_month(row.date),
          rate             |-> r,
          FMV_USD          |-> fmv_usd,
          Shares           |-> shares,
          Total_USD        |-> RoundDiv(total_usd, 10),        \* cents
          FMV_INR          |-> RoundDiv(fmv_inr, 100),         \* paise
          Total_INR        |-> IF r.found                      \* paise
                               THEN MulRoundDiv(total_usd, r.rate, 1000)
                               ELSE 0 ]

\* what get_exchange_rate returns for each date of a set: the same call
\* returns the same row, whichever of the possible rows that is
Resolvers(dates, rates) ==
    LET All == UNION { get_exchange_rate(d, rates) : d \in dates }
    IN  { R \in [dates -> All] : \A d \in dates : R[d] \in get_exchange_rate(d, rates) }

\* the rows the loop goes on with: pd.to_datetime did not raise and the
\* loop did not take 'continue'
ParsedRows(rows) ==
    LET Kept(row) == row.cell = "date"
    IN  SelectSeq(rows, Kept)

\* the row loop leaves by an exception: the date of a blank cell is NaT,
\* get_exchange_rate finds nothing for it, and ref_date.strftime, which is
\* outside the try, raises ValueError on NaT
SheetRaises(rows) == \E i \in 1..Len(rows) : rows[i].cell = "blank"

\* the tables the row loop can build from the sheet rows
SheetResults(rows, rates) ==
    LET valid  == ParsedRows(rows)
        n      == Len(valid)
        Ref(i) == get_last_day_of_preceding_month(valid[i].date)
    IN  { [i \in 1..n |-> ValueRow(valid[i], R[Ref(i)])] :
            R \in Resolvers({ Ref(i) : i \in 1..n }, rates) }

\* one result row of process_dividend_sheet: amounts in cents, rate in
\* 1/100 rupee
DividendRow(row, r) ==
    LET val_foreign == row.value
        tax_foreign == row.tax
        val_inr == IF r.found THEN val_foreign * r.rate ELSE 0   \* 1e-4 rupee
        tax_inr == IF r.found THEN tax_foreign * r.rate ELSE 0   \* 1e-4 rupee
    IN  [ Transaction_Date |-> row.date,
          Reference_Date   |-> get_last_day_of_preceding_month(row.date),
          rate             |-> r,
          Value_Foreign    |-> val_foreign,
          Tax_Foreign      |-> tax_foreign,
          Value_INR        |-> RoundDiv(val_inr, 100),           \* paise
          Tax_INR          |-> RoundDiv(tax_inr, 100) ]          \* paise

\* the tables process_dividend_sheet can return
process_dividend_sheet(df, rates) ==
    LET valid  == ParsedRows(df)
        n      == Len(valid)
        Ref(i) == get_last_day_of_preceding_month(valid[i].date)
    IN  { [i \in 1..n |-> DividendRow(valid[i], R[Ref(i)])] :
            R \in Resolvers({ Ref(i) : i \in 1..n }, rates) }

process_espp_buy_sheet(df, rates) == SheetResults(df, rates)

process_espp_sale_sheet(df, rates) == SheetResults(df, rates)

----------------------------------------------------------------------------
(* match_sales_to_purchases                                                *)

\* 30.44 average days per month, in hundredths of a day
DaysPerMonthX100 == 3044

\* long-term threshold in months
LongTermMonths == 24

Min(a, b) == IF a <= b THEN a ELSE b

\* variant of SharesMatched that takes the whole lot whatever the sale needs
SharesMatched_WholeLot(to_sell, remaining) == remaining

\* variant of SharesMatched that gives the sale all it asks for whatever
\* the lot still holds
SharesMatched_WholeSale(to_sell, remaining) == to_sell

\* shares allocated to the lot being visited
SharesMatched(to_sell, remaining) == Min(to_sell, remaining)

\* variant of IsLongTerm that compares the months rounded to one decimal
IsLongTerm_Rounded(holding_period_days) ==
    RoundDiv(holding_period_days * 1000, DaysPerMonthX100) >= LongTermMonths * 10

\* holding_period_months >= 24, with holding_period_months = days / 30.44
IsLongTerm(holding_period_days) ==
    holding_period_days * 100 >= LongTermMonths * DaysPerMonthX100

\* round(holding_period_months, 1), in tenths of a month
HoldingMonthsRounded(holding_period_days) ==
    RoundDiv(holding_period_days * 1000, DaysPerMonthX100)

\* the record appended for shares_matched shares of sale s against lot b;
\* prices in paise, shares in tenths, amounts first in 1/1000 rupee
MatchRecord(s, b, sale_row, buy_row, shares_matched) ==
    LET sale_date    == sale_row.Transaction_Date
        sale_price_per_share_inr     == sale_row.FMV_INR
        purchase_price_per_share_inr == buy_row.FMV_INR
        purchase_cost_inr == shares_matched * purchase_price_per_share_inr
        sale_proceeds_inr == shares_matched * sale_price_per_share_inr
        capital_gain_inr  == sale_proceeds_inr - purchase_cost_inr
        purchase_date     == buy_row.Transaction_Date
        holding_period_days == TimedeltaDays(sale_date, purchase_date)
        is_long_term == IsLongTerm(holding_period_days)
        ltcg == IF is_long_term THEN capital_gain_inr ELSE 0
        stcg == IF ~is_long_term THEN capital_gain_inr ELSE 0
    IN  [ sale_idx            |-> s,
          buy_idx             |-> b,
          Sale_Date           |-> sale_date,
          Purchase_Date       |-> purchase_date,
          Holding_Days        |-> holding_period_days,
          Holding_Months      |-> HoldingMonthsRounded(holding_period_days),
          Gain_Type           |-> IF is_long_term THEN "LTCG" ELSE "STCG",
          Shares_Sold         |-> shares_matched,
          Purchase_Price      |-> RoundDiv(purchase_price_per_share_inr, 1),
          Sale_Price          |-> RoundDiv(sale_price_per_share_inr, 1),
          Total_Purchase_Cost |-> RoundDiv(purchase_cost_inr, 10),
          Total_Sale_Proceeds |-> RoundDiv(sale_proceeds_inr, 10),
          Capital_Gain        |-> RoundDiv(capital_gain_inr, 10),
          LTCG                |-> RoundDiv(ltcg, 10),
          STCG                |-> RoundDiv(stcg, 10) ]

RECURSIVE SumSeq(_, _)
\* column sum: sum of col[k] for k in i..Len(col)
SumSeq(col, i) == IF i > Len(col) THEN 0 ELSE col[i] + SumSeq(col, i + 1)

NoTotals == [gain |-> 0, ltcg |-> 0, stcg |-> 0]

\* main's sums over the matched table of the instrument class, in paise
GainTotals(matched) ==
    LET n == Len(matched)
    IN  IF matched = <<>> THEN NoTotals
        ELSE [gain |-> SumSeq([k \in 1..n |-> matched[k].Capital_Gain], 1),
              ltcg |-> SumSeq([k \in 1..n |-> matched[k].LTCG], 1),
              stcg |-> SumSeq([k \in 1..n |-> matched[k].STCG], 1)]

MatchIdle ==
    /\ dividend_results = <<>>
    /\ buy_df = <<>>
    /\ sale_df = <<>>
    /\ buy_remaining = <<>>
    /\ matched_results = <<>>
    /\ sale_idx = 0
    /\ buy_idx = 0
    /\ shares_to_sell = 0
    /\ warnings = <<>>
    /\ totals = NoTotals

\* main: dividend_results = process_dividend_sheet(df_dividend, rates_df);
\* an exception from the row loop reaches main's handler, which prints it
\* and returns
ProcessDividendSheet ==
    /\ mpc = "begin"
    /\ IF SheetRaises(div_rows)
       THEN mpc' = "error" /\ UNCHANGED dividend_results
       ELSE /\ dividend_results' \in process_dividend_sheet(div_rows, rates_df)
            /\ mpc' = "start"
    /\ UNCHANGED <<rateVars, cashVars, monthVars, faVars, div_rows>>
    /\ UNCHANGED <<buy_rows, sale_rows, buy_df, sale_df, buy_remaining, matched_results,
                   sale_idx, buy_idx, shares_to_sell, warnings, totals>>

\* main: espp_buy_results = process_espp_buy_sheet(df_espp_buy, rates_df)
ProcessBuySheet ==
    /\ mpc = "start"
    /\ IF SheetRaises(buy_rows)
       THEN mpc' = "error" /\ UNCHANGED buy_df
       ELSE /\ buy_df' \in process_espp_buy_sheet(buy_rows, rates_df)
            /\ mpc' = "buy_done"
    /\ UNCHANGED <<rateVars, cashVars, monthVars, divVars, faVars>>
    /\ UNCHANGED <<buy_rows, sale_rows, sale_df, buy_remaining, matched_results,
                   sale_idx, buy_idx, shares_to_sell, warnings, totals>>

\* main: espp_sale_results = process_espp_sale_sheet(df_espp_sale, rates_df)
ProcessSaleSheet ==
    /\ mpc = "buy_done"
    /\ IF SheetRaises(sale_rows)
       THEN mpc' = "error" /\ UNCHANGED sale_df
       ELSE /\ sale_df' \in process_espp_sale_sheet(sale_rows, rates_df)
            /\ mpc' = "sale_done"
    /\ UNCHANGED <<rateVars, cashVars, monthVars, divVars, faVars>>
    /\ UNCHANGED <<buy_rows, sale_rows, buy_df, buy_remaining, matched_results,
                   sale_idx, buy_idx, shares_to_sell, warnings, totals>>

\* main: the sale table is empty, match_sales_to_purchases is not called
NoSalesToMatch ==
    /\ mpc = "sale_done"
    /\ sale_df = <<>>
    /\ mpc' = "matched"
    /\ UNCHANGED <<rateVars, cashVars, monthVars, divVars, faVars>>
    /\ UNCHANGED <<buy_rows, sale_rows, buy_df, sale_df, buy_remaining,
                   matched_results, sale_idx, buy_idx, shares_to_sell, warnings,
                   totals>>

\* entry of match_sales_to_purchases: copy the buy table and seed
\* 'Shares Remaining'.  A buy table built from no rows has no columns, the
\* column read raises KeyError and main's handler abandons the batch.
MatchBegin ==
    /\ mpc = "sale_done"
    /\ sale_df # <<>>
    /\ IF buy_df = <<>>
       THEN /\ mpc' = "error"
            /\ UNCHANGED <<buy_remaining, sale_idx>>
       ELSE /\ buy_remaining' = [i \in 1..Len(buy_df) |-> buy_df[i].Shares]
            /\ sale_idx' = 1
            /\ mpc' = "next_sale"
    /\ UNCHANGED <<rateVars, cashVars, monthVars, divVars, faVars>>
    /\ UNCHANGED <<buy_rows, sale_rows, buy_df, sale_df, matched_results, buy_idx,
                   shares_to_sell, warnings, totals>>

\* head of the outer loop: take the next sale row
NextSale ==
    /\ mpc = "next_sale"
    /\ sale_idx <= Len(sale_df)
    /\ shares_to_sell' = sale_df[sale_idx].Shares
    /\ buy_idx' = 1
    /\ mpc' = "walk"
    /\ UNCHANGED <<rateVars, cashVars, monthVars, divVars, faVars>>
    /\ UNCHANGED <<buy_rows, sale_rows, buy_df, sale_df, buy_remaining,
                   matched_results, sale_idx, warnings, totals>>

\* variant of LotIsSkipped that also passes over a lot bought after the sale
LotIsSkipped_IfBoughtLater(remaining, buy_row, sale_row) ==
    remaining <= 0 \/ buy_row.Transaction_Date > sale_row.Transaction_Date

\* if buy_row['Shares Remaining'] <= 0: continue
LotIsSkipped(remaining, buy_row, sale_row) == remaining <= 0

\* one pass of the inner loop body over lot buy_idx
VisitLot ==
    /\ mpc = "walk"
    /\ buy_idx <= Len(buy_remaining)
    /\ LET remaining      == buy_remaining[buy_idx]
           shares_matched == SharesMatched(shares_to_sell, remaining)
       IN  IF LotIsSkipped(remaining, buy_df[buy_idx], sale_df[sale_idx])
           THEN /\ buy_idx' = buy_idx + 1
                /\ UNCHANGED <<buy_remaining, matched_results, shares_to_sell, mpc>>
           ELSE IF shares_matched > 0
           THEN /\ matched_results' = Append(matched_results,
                       MatchRecord(sale_idx, buy_idx, sale_df[sale_idx],
                                   buy_df[buy_idx], shares_matched))
                /\ buy_remaining' = [buy_remaining EXCEPT
                                        ![buy_idx] = remaining - shares_matched]
                /\ shares_to_sell' = shares_to_sell - shares_matched
                /\ IF shares_to_sell - shares_matched <= 0
                   THEN mpc' = "sale_end" /\ UNCHANGED buy_idx
                   ELSE buy_idx' = buy_idx + 1 /\ UNCHANGED mpc
           ELSE /\ buy_idx' = buy_idx + 1
                /\ UNCHANGED <<buy_remaining, matched_results, shares_to_sell, mpc>>
    /\ UNCHANGED <<rateVars, cashVars, monthVars, divVars, faVars>>
    /\ UNCHANGED <<buy_rows, sale_rows, buy_df, sale_df, sale_idx, warnings, totals>>

\* variant of HasUnmatched that also holds of a sale with nothing left
HasUnmatched_OrNone(to_sell) == to_sell >= 0

\* if shares_to_sell > 0, after the inner loop
HasUnmatched(to_sell) == to_sell > 0

\* after the inner loop (exhausted or left by break): warn about unmatched
\* shares and move to the next sale
SaleEnd ==
    /\ \/ mpc = "sale_end"
       \/ mpc = "walk" /\ buy_idx > Len(buy_remaining)
    /\ warnings' = IF HasUnmatched(shares_to_sell)
                   THEN Append(warnings, [sale |-> sale_idx, unmatched |-> shares_to_sell])
                   ELSE warnings
    /\ sale_idx' = sale_idx + 1
    /\ mpc' = "next_sale"
    /\ UNCHANGED <<rateVars, cashVars, monthVars, divVars, faVars>>
    /\ UNCHANGED <<buy_rows, sale_rows, buy_df, sale_df, buy_remaining,
                   matched_results, buy_idx, shares_to_sell, totals>>

\* return pd.DataFrame(matched_results)
MatchReturn ==
    /\ mpc = "next_sale"
    /\ sale_idx > Len(sale_df)
    /\ mpc' = "matched"
    /\ UNCHANGED <<rateVars, cashVars, monthVars, divVars, faVars>>
    /\ UNCHANGED <<buy_rows, sale_rows, buy_df, sale_df, buy_remaining,
                   matched_results, sale_idx, buy_idx, shares_to_sell, warnings,
                   totals>>

\* main: capital gains summary of the instrument class
Summarise ==
    /\ mpc = "matched"
    /\ totals' = GainTotals(matched_results)
    /\ mpc' = "summed"
    /\ UNCHANGED <<rateVars, cashVars, monthVars, divVars, faVars>>
    /\ UNCHANGED <<buy_rows, sale_rows, buy_df, sale_df, buy_remaining,
                   matched_results, sale_idx, buy_idx, shares_to_sell, warnings>>

NextMatch ==
    \/ ProcessDividendSheet
    \/ ProcessBuySheet
    \/ ProcessSaleSheet
    \/ NoSalesToMatch
    \/ MatchBegin
    \/ NextSale
    \/ VisitLot
    \/ SaleEnd
    \/ MatchReturn
    \/ Summarise

----------------------------------------------------------------------------
(* process_cash_sheet                                                      *)

NoDate == [na |-> TRUE, date |-> 0]

\* d.strftime('%Y-%m-%d') if d else 'N/A'
DateOrNA(has, d) == IF has THEN [na |-> FALSE, date |-> Normalize(d)] ELSE NoDate

RECURSIVE LastOfType(_, _, _)
\* position of the last row among 1..i whose type is t, 0 if there is none
LastOfType(df, t, i) ==
    IF i = 0 THEN 0
    ELSE IF df[i].type = t THEN i
    ELSE LastOfType(df, t, i - 1)

RECURSIVE InsertByDate(_, _)
\* x placed after every element of the sorted list whose date is <= x.date
InsertByDate(sorted, x) ==
    IF sorted = <<>> THEN <<x>>
    ELSE IF sorted[Len(sorted)].date <= x.date THEN Append(sorted, x)
    ELSE Append(InsertByDate(SubSeq(sorted, 1, Len(sorted) - 1), x), sorted[Len(sorted)])

RECURSIVE SortedByDate(_)
\* sorted(cash_transactions, key=date): stable
SortedByDate(txs) ==
    IF txs = <<>> THEN <<>>
    ELSE InsertByDate(SortedByDate(SubSeq(txs, 1, Len(txs) - 1)), txs[Len(txs)])

\* usd * rate if rate else 0: cents times 1/100 rupee, in 1e-4 rupee
ToInr(usd, r) == IF r.found THEN usd * r.rate ELSE 0

RECURSIVE RunningEntries(_, _, _, _, _)
\* timeline entries of the sorted cash transactions from position i on,
\* the balances before them being espp and rsu
RunningEntries(txs, i, espp, rsu, R) ==
    IF i > Len(txs) THEN <<>>
    ELSE LET current_espp_cash == espp + txs[i].espp
             current_rsu_cash  == rsu + txs[i].rsu
             combined_usd      == current_espp_cash + current_rsu_cash
             rate              == R[txs[i].date]
         IN  <<[date |-> txs[i].date, combined_usd |-> combined_usd, rate |-> rate,
                combined_inr |-> ToInr(combined_usd, rate)]>>
             \o RunningEntries(txs, i + 1, current_espp_cash, current_rsu_cash, R)

\* variant of MaxEntry that reports the opening entry without comparing
MaxEntry_Opening(timeline) == timeline[1]

\* max(cash_timeline, key=combined_inr): the first entry no other exceeds
MaxEntry(timeline) ==
    LET best == CHOOSE i \in 1..Len(timeline) :
                  /\ \A j \in 1..Len(timeline) :
                        timeline[j].combined_inr <= timeline[i].combined_inr
                  /\ \A j \in 1..(i - 1) :
                        timeline[j].combined_inr < timeline[i].combined_inr
    IN  timeline[best]

\* the cash balance timeline: opening, running balances, closing
CashTimeline(df, o, c, R) ==
    LET IsCash(row) == row.type = "cash"
        txs     == SortedByDate(SelectSeq(df, IsCash))
        opening_combined == df[o].espp + df[o].rsu
        closing_combined == df[c].espp + df[c].rsu
    IN  <<[date |-> df[o].date, combined_usd |-> opening_combined,
           rate |-> R[df[o].date],
           combined_inr |-> ToInr(opening_combined, R[df[o].date])]>>
        \o RunningEntries(txs, 1, df[o].espp, df[o].rsu, R)
        \o <<[date |-> df[c].date, combined_usd |-> closing_combined,
              rate |-> R[df[c].date],
              combined_inr |-> ToInr(closing_combined, R[df[c].date])]>>

\* the detail table: one record per row
CashDetail(df, R) ==
    [i \in 1..Len(df) |->
        LET combined_val == df[i].espp + df[i].rsu
            rate         == R[df[i].date]
        IN  [ Date |-> df[i].date, Type |-> df[i].type,
              ESPP_USD |-> df[i].espp, RSU_USD |-> df[i].rsu,
              Combined_USD |-> combined_val,
              Exchange_Rate |-> rate,
              Combined_INR |-> IF rate.found THEN RoundDiv(combined_val * rate.rate, 100)
                               ELSE 0 ]]

NoSummary ==
    [ Opening_Date |-> NoDate, Opening_Combined_USD |-> 0, Opening_Combined_INR |-> 0,
      Closing_Date |-> NoDate, Closing_Combined_USD |-> 0, Closing_Combined_INR |-> 0,
      Peak_Date |-> NoDate, Peak_Combined_USD |-> 0, Peak_Combined_INR |-> 0 ]

\* the outcome of process_cash_sheet(df, rates_df) when the lookups answer
\* as R: the tables it returns, or the exception it leaves with.  The
\* progress lines of the peak computation format each entry's rate with
\* ':.2f', which raises TypeError when the rate is None.
process_cash_sheet(df, R) ==
    LET o == LastOfType(df, "opening", Len(df))
        c == LastOfType(df, "closing", Len(df))
        closing_combined_usd == IF c = 0 THEN 0 ELSE df[c].espp + df[c].rsu
        closing_combined_inr == IF c = 0 THEN 0 ELSE ToInr(closing_combined_usd, R[df[c].date])
        opening_combined_usd == IF o = 0 THEN 0 ELSE df[o].espp + df[o].rsu
        opening_combined_inr == IF o = 0 THEN 0 ELSE ToInr(opening_combined_usd, R[df[o].date])
        peak      == c # 0 /\ o # 0
        timeline  == CashTimeline(df, o, c, R)
        raises    == peak /\ \E k \in 1..Len(timeline) : ~timeline[k].rate.found
        max_entry == MaxEntry(timeline)
    IN  IF raises
        THEN [status |-> "raised", results |-> <<>>, summary |-> NoSummary]
        ELSE [status |-> "returned",
              results |-> CashDetail(df, R),
              summary |->
                [ Opening_Date |-> DateOrNA(o # 0, IF o = 0 THEN 0 ELSE df[o].date),
                  Opening_Combined_USD |-> opening_combined_usd,
                  Opening_Combined_INR |-> RoundDiv(opening_combined_inr, 100),
                  Closing_Date |-> DateOrNA(c # 0, IF c = 0 THEN 0 ELSE df[c].date),
                  Closing_Combined_USD |-> closing_combined_usd,
                  Closing_Combined_INR |-> RoundDiv(closing_combined_inr, 100),
                  Peak_Date |-> DateOrNA(peak, IF peak THEN max_entry.date ELSE 0),
                  Peak_Combined_USD |-> IF peak THEN max_entry.combined_usd ELSE 0,
                  Peak_Combined_INR |->
                      IF peak THEN RoundDiv(max_entry.combined_inr, 100) ELSE 0 ]]

NoCashOut == [status |-> "none", results |-> <<>>, summary |-> NoSummary]

CashIdle == cash_out = NoCashOut

\* main: cash_results, cash_summary = process_cash_sheet(df_cash, rates_df),
\* inside try/except: an exception leaves cash_results empty and
\* cash_summary None
ProcessCashSheet ==
    /\ cpc = "start"
    /\ \E R \in Resolvers({ cash_rows[i].date : i \in 1..Len(cash_rows) }, rates_df) :
          cash_out' = process_cash_sheet(cash_rows, R)
    /\ cpc' = "done"
    /\ UNCHANGED <<cash_rows, rateVars, matchVars, monthVars, divVars, faVars>>

----------------------------------------------------------------------------
(* process_schedule_fa                                                     *)
(*                                                                         *)
(* Ledger rows are [cell, date, type, shares, cash_usd, market_value_usd], *)
(* shares in tenths, USD amounts in cents; the date cells are dates or     *)
(* text.  The price series is [date, Close], Close in cents, in date order *)
(* as the price source returns it.                                         *)

FaStart ==
    [ opening_value_inr |-> 0, closing_value_inr |-> 0,
      closing_date |-> NoDate, opening_date |-> NoDate,
      total_shares |-> 0, positive_cash_total_usd |-> 0 ]

\* variant of FaRowStep whose opening row adds to the running share total
FaRowStep_OpeningAdds(st, row, r) ==
    IF row.type = "opening"
    THEN [st EXCEPT !.opening_value_inr = ToInr(row.market_value_usd, r),
                    !.opening_date = [na |-> FALSE, date |-> row.date],
                    !.total_shares = st.total_shares + row.shares]
    ELSE IF row.type = "closing"
    THEN [st EXCEPT !.closing_value_inr = ToInr(row.market_value_usd, r),
                    !.closing_date = [na |-> FALSE, date |-> row.date]]
    ELSE IF row.type = "share"
    THEN [st EXCEPT !.total_shares = st.total_shares + row.shares]
    ELSE IF row.type = "cash" /\ row.cash_usd > 0
    THEN [st EXCEPT !.positive_cash_total_usd = st.positive_cash_total_usd + row.cash_usd]
    ELSE st

\* one pass of the first row loop over a row whose date parsed; r is what
\* get_exchange_rate returned for the row's date; INR values in 1e-4 rupee
FaRowStep(st, row, r) ==
    IF row.type = "opening"
    THEN [st EXCEPT !.opening_value_inr = ToInr(row.market_value_usd, r),
                    !.opening_date = [na |-> FALSE, date |-> row.date],
                    !.total_shares = row.shares]
    ELSE IF row.type = "closing"
    THEN [st EXCEPT !.closing_value_inr = ToInr(row.market_value_usd, r),
                    !.closing_date = [na |-> FALSE, date |-> row.date]]
    ELSE IF row.type = "share"
    THEN [st EXCEPT !.total_shares = st.total_shares + row.shares]
    ELSE IF row.type = "cash" /\ row.cash_usd > 0
    THEN [st EXCEPT !.positive_cash_total_usd = st.positive_cash_total_usd + row.cash_usd]
    ELSE st

RECURSIVE FaReplay(_, _, _, _)
\* the first row loop from row i on
FaReplay(rows, i, st, R) ==
    IF i > Len(rows) THEN st
    ELSE FaReplay(rows, i + 1, FaRowStep(st, rows[i], R[rows[i].date]), R)

\* the detail table: one record per row whose date parsed
FaDetail(rows, R) ==
    [i \in 1..Len(rows) |->
        LET rate == R[rows[i].date]
        IN  [ Date |-> rows[i].date, Type |-> rows[i].type,
              Shares |-> rows[i].shares, Cash_USD |-> rows[i].cash_usd,
              Market_Value_USD |-> rows[i].market_value_usd,
              Exchange_Rate |-> rate,
              Market_Value_INR |->
                  IF rate.found THEN RoundDiv(rows[i].market_value_usd * rate.rate, 100)
                  ELSE 0 ]]

RECURSIVE ShareTimeline(_, _, _)
\* share_timeline: the second row loop from row i on, current_shares being
\* the balance so far; entries are appended in row order
ShareTimeline(rows, i, current_shares) ==
    IF i > Len(rows) THEN <<>>
    ELSE IF rows[i].type = "opening"
    THEN <<[date |-> Normalize(rows[i].date), shares |-> rows[i].shares]>>
         \o ShareTimeline(rows, i + 1, rows[i].shares)
    ELSE IF rows[i].type = "share"
    THEN <<[date |-> Normalize(rows[i].date), shares |-> current_shares + rows[i].shares]>>
         \o ShareTimeline(rows, i + 1, current_shares + rows[i].shares)
    ELSE ShareTimeline(rows, i + 1, current_shares)

RECURSIVE SharesOnDate(_, _, _, _)
\* the scan of share_timeline for one trading day, from entry k on: take the
\* entry's balance while its date is on or before the day, stop at the
\* first entry dated after it
SharesOnDate(share_timeline, stock_date, k, shares_on_date) ==
    IF k > Len(share_timeline) THEN shares_on_date
    ELSE IF Normalize(share_timeline[k].date) <= Normalize(stock_date)
    THEN SharesOnDate(share_timeline, stock_date, k + 1, share_timeline[k].shares)
    ELSE shares_on_date

\* per trading day: price, balance and value_on_date (1/1000 USD)
DayValues(prices, share_timeline) ==
    [d \in 1..Len(prices) |->
        LET shares_on_date == SharesOnDate(share_timeline, prices[d].date, 1, 0)
        IN  [ date |-> prices[d].date, price |-> prices[d].Close,
              shares |-> shares_on_date,
              value |-> prices[d].Close * shares_on_date ]]

NoMax == [found |-> FALSE, value |-> 0, date |-> 0, price |-> 0, shares |-> 0]

RECURSIVE MaxValueDay_LastOfEqual(_, _, _)
\* variant of MaxValueDay that also moves to a day of equal value
MaxValueDay_LastOfEqual(days, d, best) ==
    IF d > Len(days) THEN best
    ELSE IF days[d].value >= best.value
    THEN MaxValueDay_LastOfEqual(days, d + 1,
            [found |-> TRUE, value |-> days[d].value, date |-> days[d].date,
             price |-> days[d].price, shares |-> days[d].shares])
    ELSE MaxValueDay_LastOfEqual(days, d + 1, best)

RECURSIVE MaxValueDay_FirstPositive(_, _, _)
\* variant of MaxValueDay that stops at the first day of positive value
MaxValueDay_FirstPositive(days, d, best) ==
    IF d > Len(days) THEN best
    ELSE IF days[d].value > 0 /\ ~best.found
    THEN MaxValueDay_FirstPositive(days, d + 1,
            [found |-> TRUE, value |-> days[d].value, date |-> days[d].date,
             price |-> days[d].price, shares |-> days[d].shares])
    ELSE MaxValueDay_FirstPositive(days, d + 1, best)

RECURSIVE MaxValueDay(_, _, _)
\* the scan for max_value_usd from day d on: a day replaces the best so far
\* only when its value is strictly greater
MaxValueDay(days, d, best) ==
    IF d > Len(days) THEN best
    ELSE IF days[d].value > best.value
    THEN MaxValueDay(days, d + 1,
            [found |-> TRUE, value |-> days[d].value, date |-> days[d].date,
             price |-> days[d].price, shares |-> days[d].shares])
    ELSE MaxValueDay(days, d + 1, best)

\* variant of PeakEntered that asks for the closing row only
PeakEntered_ClosingOnly(source, closing_date, opening_date) ==
    source # "not_installed" /\ ~closing_date.na

\* if YFINANCE_AVAILABLE and closing_date and opening_date
PeakEntered(source, closing_date, opening_date) ==
    /\ source # "not_installed"
    /\ ~closing_date.na
    /\ ~opening_date.na

\* the outcome of process_schedule_fa(df, rates_df) when the lookups answer
\* as R, the price source behaves as source and, when it answers, returns
\* the series prices
process_schedule_fa(df, R, source, prices) ==
    LET rows == ParsedRows(df)
        st   == FaReplay(rows, 1, FaStart, R)
        positive_cash_inr ==
            IF st.closing_date.na THEN 0
            ELSE ToInr(st.positive_cash_total_usd, R[st.closing_date.date])
        entered  == PeakEntered(source, st.closing_date, st.opening_date)
        replayed == entered /\ source = "ok" /\ prices # <<>>
        share_timeline == IF replayed THEN ShareTimeline(rows, 1, 0) ELSE <<>>
        days == IF replayed THEN DayValues(prices, share_timeline) ELSE <<>>
        max  == MaxValueDay(days, 1, NoMax)
        peak_rate == IF max.found THEN R[max.date] ELSE None
        peak_value_inr ==                                        \* paise
            IF max.found /\ peak_rate.found
            THEN MulRoundDiv(max.value, peak_rate.rate, 1000)
            ELSE 0
    IN  [ status  |-> "returned",
          results |-> FaDetail(rows, R),
          share_timeline |-> share_timeline,
          days    |-> days,
          summary |->
            [ Opening_Date |-> DateOrNA(~st.opening_date.na, st.opening_date.date),
              Opening_Value_INR |-> RoundDiv(st.opening_value_inr, 100),
              Closing_Date |-> DateOrNA(~st.closing_date.na, st.closing_date.date),
              Closing_Value_INR |-> RoundDiv(st.closing_value_inr, 100),
              Total_Shares |-> st.total_shares,
              Positive_Cash_USD |-> st.positive_cash_total_usd,
              Positive_Cash_INR |-> RoundDiv(positive_cash_inr, 100),
              Peak_Date |-> DateOrNA(max.found, max.date),
              Peak_Price_USD |-> max.price,
              Peak_Value_INR |-> peak_value_inr ] ]

NoFaSummary ==
    [ Opening_Date |-> NoDate, Opening_Value_INR |-> 0,
      Closing_Date |-> NoDate, Closing_Value_INR |-> 0,
      Total_Shares |-> 0, Positive_Cash_USD |-> 0, Positive_Cash_INR |-> 0,
      Peak_Date |-> NoDate, Peak_Price_USD |-> 0, Peak_Value_INR |-> 0 ]

NoFaOut ==
    [ status |-> "none", results |-> <<>>, share_timeline |-> <<>>, days |-> <<>>,
      summary |-> NoFaSummary ]

FaIdle == fa_out = NoFaOut

\* the dates process_schedule_fa can look a rate up for
FaDates(df, prices) ==
    { ParsedRows(df)[i].date : i \in 1..Len(ParsedRows(df)) }
        \cup { prices[d].date : d \in 1..Len(prices) }

\* main: schedule_fa_espp_results, schedule_fa_espp_summary =
\* process_schedule_fa(df_schedule_fa_espp, rates_df, ticker_symbol)
ProcessScheduleFa ==
    /\ fpc = "start"
    /\ \E R \in Resolvers(FaDates(fa_rows, hist), rates_df) :
          fa_out' = process_schedule_fa(fa_rows, R, price_source, hist)
    /\ fpc' = "done"
    /\ UNCHANGED <<fa_rows, hist, price_source, rateVars, matchVars, cashVars,
                   monthVars, divVars>>

----------------------------------------------------------------------------
(* Specifications.                                                         *)

MonthOff ==
    /\ given_date = 0
    /\ MonthIdle
    /\ lpc = "off"

FaOff ==
    /\ fa_rows = <<>>
    /\ hist = <<>>
    /\ price_source = "not_installed"
    /\ FaIdle
    /\ fpc = "off"

MatchOff ==
    /\ div_rows = <<>>
    /\ buy_rows = <<>>
    /\ sale_rows = <<>>
    /\ MatchIdle
    /\ mpc = "off"

CashOff ==
    /\ cash_rows = <<>>
    /\ CashIdle
    /\ cpc = "off"

\* --- lookups against arbitrary small rate tables

InitRate ==
    /\ rates_df \in SeqsUpTo(RateEntries, MaxRates)
    /\ RateIdle
    /\ MatchOff
    /\ CashOff
    /\ MonthOff
    /\ FaOff

NextRate == \E D \in TargetDates : Lookup(D)

SpecRate == InitRate /\ [][NextRate]_vars

\* --- FIFO allocation: share counts vary, prices and dates are fixed

MaxLots == 2

MaxSales == 2

AllocRates == <<[DATE |-> Timestamp(2021, 12, 1, 9, 0), TT_BUY |-> 10000]>>

AllocBuyRows ==
    [cell : {"date"}, date : {Timestamp(2022, 1, 10, 0, 0)}, fmv_usd : {1000},
     shares : {0, 5, 500, 1000}]

AllocSaleRows ==
    [cell : {"date"}, date : {Timestamp(2024, 2, 15, 0, 0)}, fmv_usd : {1500},
     shares : {0, 3, 700, 1600}]

InitAlloc ==
    /\ rates_df = AllocRates
    /\ div_rows = <<>>
    /\ buy_rows \in SeqsUpTo(AllocBuyRows, MaxLots)
    /\ sale_rows \in SeqsUpTo(AllocSaleRows, MaxSales)
    /\ MatchIdle
    /\ mpc = "begin"
    /\ RateIdle
    /\ CashOff
    /\ MonthOff
    /\ FaOff

SpecAlloc == InitAlloc /\ [][NextMatch]_vars

\* --- allocation against dates: lots bought before or after the sales

MaxDatedLots == 2

MaxDatedSales == 2

DatedBuyRows ==
    [cell : {"date"},
     date : {Timestamp(2022, 1, 10, 0, 0), Timestamp(2024, 3, 1, 0, 0)},
     fmv_usd : {1000}, shares : {5, 500}]

DatedSaleRows ==
    [cell : {"date"},
     date : {Timestamp(2022, 1, 5, 0, 0), Timestamp(2024, 2, 15, 0, 0)},
     fmv_usd : {1500}, shares : {3, 700}]

InitDated ==
    /\ rates_df = AllocRates
    /\ div_rows = <<>>
    /\ buy_rows \in SeqsUpTo(DatedBuyRows, MaxDatedLots)
    /\ sale_rows \in SeqsUpTo(DatedSaleRows, MaxDatedSales)
    /\ MatchIdle
    /\ mpc = "begin"
    /\ RateIdle
    /\ CashOff
    /\ MonthOff
    /\ FaOff

SpecDated == InitDated /\ [][NextMatch]_vars

\* --- gains: prices, rates and dates vary

MaxGainLots == 1

MaxGainSales == 1

GainRateTables ==
    { <<>>,
      <<[DATE |-> Timestamp(2021, 12, 1, 9, 0), TT_BUY |-> 10000]>>,
      <<[DATE |-> Timestamp(2021, 12, 1, 9, 0), TT_BUY |-> 8317]>> }

GainBuyRows ==
    [cell : {"date"},
     date : {Timestamp(2022, 1, 10, 0, 0), Timestamp(2022, 2, 14, 0, 0),
             Timestamp(2022, 2, 15, 0, 0)},
     fmv_usd : {1000, 1001}, shares : {1000, 4}]

GainSaleRows ==
    [cell : {"date"}, date : {Timestamp(2024, 2, 15, 0, 0)}, fmv_usd : {1500, 1506},
     shares : {600, 4}]

InitGain ==
    /\ rates_df \in GainRateTables
    /\ div_rows = <<>>
    /\ buy_rows \in SeqsUpTo(GainBuyRows, MaxGainLots)
    /\ sale_rows \in SeqsUpTo(GainSaleRows, MaxGainSales)
    /\ MatchIdle
    /\ mpc = "begin"
    /\ RateIdle
    /\ CashOff
    /\ MonthOff
    /\ FaOff

SpecGain == InitGain /\ [][NextMatch]_vars

\* --- cash ledgers

MaxCashRows == 3

CashRateTables ==
    { <<>>,
      <<[DATE |-> Timestamp(2022, 12, 30, 9, 0), TT_BUY |-> 8000]>>,
      <<[DATE |-> Timestamp(2023, 6, 1, 9, 0), TT_BUY |-> 9000]>>,
      <<[DATE |-> Timestamp(2023, 6, 1, 9, 0), TT_BUY |-> 9000],
        [DATE |-> Timestamp(2022, 12, 30, 9, 0), TT_BUY |-> 8000]>> }

CashDates ==
    { Timestamp(2023, 1, 1, 0, 0), Timestamp(2023, 6, 15, 0, 0),
      Timestamp(2023, 12, 31, 0, 0) }

CashRows ==
    { [date |-> d, type |-> t, espp |-> v[1], rsu |-> v[2]] :
        d \in CashDates, t \in {"opening", "closing", "cash"},
        v \in { <<10000, 2000>>, <<-5000, 0>> } }

InitCash ==
    /\ rates_df \in CashRateTables
    /\ cash_rows \in SeqsUpTo(CashRows, MaxCashRows)
    /\ CashIdle
    /\ cpc = "start"
    /\ RateIdle
    /\ MatchOff
    /\ MonthOff
    /\ FaOff

NextCash == ProcessCashSheet

SpecCash == InitCash /\ [][NextCash]_vars

\* --- get_last_day_of_preceding_month over a run of consecutive days

MaxMonthDays == 500

\* days from 2023-12-01 on (a year end, a leap February, a common
\* February), midnight and afternoon, and days around century Februaries
MonthDates ==
    { (DaysFromCivil(2023, 12, 1) + k) * MinutesPerDay + t :
        k \in 0..(MaxMonthDays - 1), t \in {0, 930} }
    \cup { Timestamp(2000, 3, 1, 0, 0), Timestamp(2000, 3, 31, 23, 59),
           Timestamp(2100, 3, 1, 0, 0), Timestamp(2100, 1, 1, 0, 0),
           Timestamp(1999, 1, 31, 12, 0) }

InitMonth ==
    /\ rates_df = <<>>
    /\ given_date \in MonthDates
    /\ MonthIdle
    /\ lpc = "idle"
    /\ RateIdle
    /\ MatchOff
    /\ CashOff
    /\ FaOff

NextMonth == PrecedingMonth

SpecMonth == InitMonth /\ [][NextMonth]_vars

\* --- valuation of dividend, buy and sale sheets, rows with bad dates

MaxDivRows == 2

MaxSheetBuys == 2

MaxSheetSales == 1

SheetRateTables ==
    { <<[DATE |-> Timestamp(2023, 4, 28, 9, 0), TT_BUY |-> 8317],
        [DATE |-> Timestamp(2023, 4, 30, 9, 0), TT_BUY |-> 0],
        [DATE |-> Timestamp(2023, 5, 10, 9, 0), TT_BUY |-> 9000]>>,
      <<[DATE |-> Timestamp(2023, 5, 10, 9, 0), TT_BUY |-> 9000]>> }

SheetDivRows ==
    [cell : {"date"}, date : {Timestamp(2023, 5, 15, 0, 0), Timestamp(2023, 4, 10, 0, 0)},
     value : {1001}, tax : {250}]
    \cup [cell : {"text", "blank"}, date : {0}, value : {1001}, tax : {250}]

SheetBuyRows ==
    [cell : {"date"}, date : {Timestamp(2023, 5, 15, 0, 0)}, fmv_usd : {1001},
     shares : {4}]
    \cup [cell : {"text", "blank"}, date : {0}, fmv_usd : {1001}, shares : {4}]

SheetSaleRows ==
    [cell : {"date"}, date : {Timestamp(2023, 6, 20, 0, 0)}, fmv_usd : {1506},
     shares : {4}]
    \cup [cell : {"text"}, date : {0}, fmv_usd : {1506}, shares : {4}]

InitSheet ==
    /\ rates_df \in SheetRateTables
    /\ div_rows \in SeqsUpTo(SheetDivRows, MaxDivRows)
    /\ buy_rows \in SeqsUpTo(SheetBuyRows, MaxSheetBuys)
    /\ sale_rows \in SeqsUpTo(SheetSaleRows, MaxSheetSales)
    /\ MatchIdle
    /\ mpc = "begin"
    /\ RateIdle
    /\ CashOff
    /\ MonthOff
    /\ FaOff

SpecSheet == InitSheet /\ [][NextMatch]_vars

\* --- asset ledgers and price series

MaxFaRows == 3

FaRateTables ==
    { <<>>,
      <<[DATE |-> Timestamp(2022, 12, 30, 9, 0), TT_BUY |-> 8000],
        [DATE |-> Timestamp(2023, 6, 1, 9, 0), TT_BUY |-> 9000]>> }

FaRowDates ==
    { Timestamp(2023, 1, 1, 0, 0), Timestamp(2023, 6, 15, 0, 0),
      Timestamp(2023, 12, 31, 0, 0) }

FaLedgerRows ==
    { [cell |-> "date", date |-> d, type |-> v[1], shares |-> v[2], cash_usd |-> v[3],
       market_value_usd |-> v[4]] :
        d \in FaRowDates,
        v \in { <<"opening", 10, 0, 50000>>, <<"closing", 40, 0, 90000>>,
                <<"share", 20, 0, 0>>, <<"cash", 0, 1500, 0>>,
                <<"cash", 0, -700, 0>> } }
    \cup { [cell |-> "text", date |-> 0, type |-> "opening", shares |-> 10,
            cash_usd |-> 0, market_value_usd |-> 50000] }

\* what the price source can do: the import failed, the fetch raises, or it
\* returns a series (possibly empty)
PriceSeries ==
    { <<>>,
      <<[date |-> Timestamp(2023, 1, 3, 0, 0), Close |-> 6000],
        [date |-> Timestamp(2023, 6, 15, 0, 0), Close |-> 5500],
        [date |-> Timestamp(2023, 12, 29, 0, 0), Close |-> 6000]>>,
      <<[date |-> Timestamp(2023, 1, 3, 0, 0), Close |-> 5000],
        [date |-> Timestamp(2023, 6, 16, 0, 0), Close |-> 2000],
        [date |-> Timestamp(2023, 12, 29, 0, 0), Close |-> 2000]>> }

PriceSourceRuns ==
    { <<"not_installed", <<>> >>, <<"fetch_fails", <<>> >> }
        \cup { <<"ok", h>> : h \in PriceSeries }

InitFa ==
    /\ rates_df \in FaRateTables
    /\ fa_rows \in SeqsUpTo(FaLedgerRows, MaxFaRows)
    /\ \E run \in PriceSourceRuns : price_source = run[1] /\ hist = run[2]
    /\ FaIdle
    /\ fpc = "start"
    /\ RateIdle
    /\ MatchOff
    /\ CashOff
    /\ MonthOff

NextFa == ProcessScheduleFa

SpecFa == InitFa /\ [][NextFa]_vars

\* --- one run of main over all sheets: dividends, buys, sales, matching,
\* asset ledger, cash ledger

MaxMainRows == 2

MaxMainCash == 1

\* main: the asset ledger is processed once the sales are matched
MainScheduleFa ==
    /\ mpc \in {"matched", "summed"}
    /\ ProcessScheduleFa

\* main: the cash ledger is processed after the asset ledger
MainCashSheet ==
    /\ fpc = "done"
    /\ ProcessCashSheet

MainRateTables ==
    { <<[DATE |-> Timestamp(2022, 12, 30, 9, 0), TT_BUY |-> 8000],
        [DATE |-> Timestamp(2023, 4, 28, 9, 0), TT_BUY |-> 8317],
        [DATE |-> Timestamp(2023, 4, 30, 9, 0), TT_BUY |-> 0],
        [DATE |-> Timestamp(2023, 5, 10, 9, 0), TT_BUY |-> 9000]>>,
      <<[DATE |-> Timestamp(2023, 5, 10, 9, 0), TT_BUY |-> 9000]>> }

MainDivRows ==
    { [cell |-> "date", date |-> Timestamp(2023, 5, 15, 0, 0), value |-> 1001,
       tax |-> 250] }

MainBuyRows ==
    { [cell |-> "date", date |-> Timestamp(2023, 5, 15, 0, 0), fmv_usd |-> 1001,
       shares |-> 4] }

MainSaleRows ==
    { [cell |-> "date", date |-> Timestamp(2023, 6, 20, 0, 0), fmv_usd |-> 1506,
       shares |-> 4] }

MainFaRows ==
    { [cell |-> "date", date |-> v[1], type |-> v[2], shares |-> v[3], cash_usd |-> v[4],
       market_value_usd |-> v[5]] :
        v \in { <<Timestamp(2023, 1, 1, 0, 0), "opening", 10, 0, 50000>>,
                <<Timestamp(2023, 1, 1, 0, 0), "cash", 0, 1500, 0>>,
                <<Timestamp(2023, 5, 15, 0, 0), "cash", 0, 1500, 0>>,
                <<Timestamp(2023, 5, 15, 0, 0), "share", 20, 0, 11000>>,
                <<Timestamp(2023, 12, 31, 0, 0), "closing", 30, 0, 90000>> } }

MainPrices ==
    <<[date |-> Timestamp(2023, 1, 3, 0, 0), Close |-> 6000],
      [date |-> Timestamp(2023, 6, 15, 0, 0), Close |-> 5500]>>

MainCashRows ==
    { [date |-> v[1], type |-> v[2], espp |-> v[3], rsu |-> v[4]] :
        v \in { <<Timestamp(2023, 1, 1, 0, 0), "opening", 10000, 2000>>,
                <<Timestamp(2023, 5, 15, 0, 0), "cash", -5000, 0>>,
                <<Timestamp(2023, 12, 31, 0, 0), "closing", 4000, 2000>> } }

InitMain ==
    /\ rates_df \in MainRateTables
    /\ div_rows \in SeqsUpTo(MainDivRows, 1)
    /\ buy_rows \in [1..1 -> MainBuyRows]
    /\ sale_rows \in SeqsUpTo(MainSaleRows, 1)
    /\ MatchIdle
    /\ mpc = "begin"
    /\ fa_rows \in SeqsUpTo(MainFaRows, MaxMainRows)
    /\ hist = MainPrices
    /\ price_source = "ok"
    /\ FaIdle
    /\ fpc = "start"
    /\ cash_rows \in SeqsUpTo(MainCashRows, MaxMainCash)
    /\ CashIdle
    /\ cpc = "start"
    /\ RateIdle
    /\ MonthOff

NextMain ==
    \/ NextMatch
    \/ MainScheduleFa
    \/ MainCashSheet

SpecMain == InitMain /\ [][NextMain]_vars

----------------------------------------------------------------------------
(* Claims.                                                                 *)

\* rows of the rate table dated on or before the calendar day of D whose
\* rate is > 0
Qualifying(D) ==
    { i \in 1..Len(rates_df) :
        Normalize(rates_df[i].DATE) <= Normalize(D) /\ rates_df[i].TT_BUY > 0 }

\* C1: for every rate table and target date D, get_exchange_rate(D) returns
\* the rate and date of a row with rate > 0 dated (by calendar day) on or
\* before D such that no other such row has a later calendar day; it never
\* returns a row dated after D or a rate <= 0; and it returns (None, None)
\* exactly when no row dated on or before D has rate > 0.
C1_RateOnOrBefore ==
    rpc = "looked" =>
        /\ lookup.found <=> Qualifying(target_date) # {}
        /\ lookup.found =>
              /\ lookup.rate > 0
              /\ Normalize(lookup.date) <= Normalize(target_date)
              /\ \E i \in Qualifying(target_date) :
                    /\ lookup.rate = rates_df[i].TT_BUY
                    /\ lookup.date = rates_df[i].DATE
                    /\ \A j \in Qualifying(target_date) :
                          rates_df[j].DATE <= rates_df[i].DATE
        /\ ~lookup.found => lookup = None

\* the example of the claim: (2023-04-28, 82.50) and (2023-04-30, 0), looked
\* up for 2023-05-02, answer (82.50, 2023-04-28)
C1_Witness ==
    /\ rpc = "looked"
    /\ rates_df = <<[DATE |-> Timestamp(2023, 4, 28, 0, 0), TT_BUY |-> 8250],
                    [DATE |-> Timestamp(2023, 4, 30, 0, 0), TT_BUY |-> 0]>>
    /\ target_date = Timestamp(2023, 5, 2, 0, 0)
    /\ lookup = [found |-> TRUE, rate |-> 8250, date |-> Timestamp(2023, 4, 28, 0, 0)]

----------------------------------------------------------------------------
(* Claims about match_sales_to_purchases: allocation.                      *)

\* the matching has run to its return statement
MatchReturned == mpc \in {"matched", "summed"} /\ sale_df # <<>>

\* the lots have been seeded with 'Shares Remaining'
MatchRunning == mpc \in {"next_sale", "walk", "sale_end", "matched", "summed"} /\ sale_df # <<>>

\* sum of the 'No. of Shares' column of a buy or sale table
TotalShares(df) == SumSeq([k \in 1..Len(df) |-> df[k].Shares], 1)

\* sum of 'Shares Sold' over the records
TotalMatched == SumSeq([k \in 1..Len(matched_results) |-> matched_results[k].Shares_Sold], 1)

\* sum of the unmatched shares the warnings report
TotalUnmatched == SumSeq([k \in 1..Len(warnings) |-> warnings[k].unmatched], 1)

\* shares of the first k records that were taken from lot b
TakenFromLot(b, k) ==
    SumSeq([j \in 1..k |-> IF matched_results[j].buy_idx = b
                           THEN matched_results[j].Shares_Sold ELSE 0], 1)

\* shares of the first k records that were matched to sale s
MatchedToSale(s, k) ==
    SumSeq([j \in 1..k |-> IF matched_results[j].sale_idx = s
                           THEN matched_results[j].Shares_Sold ELSE 0], 1)

\* C2 as stated: after all sales are processed, sum(sharesOriginal) -
\* sum(sharesRemaining) = sum(sharesMatched) + sum(reported unmatched shares)
C2_Original ==
    MatchReturned =>
        TotalShares(buy_df) - SumSeq(buy_remaining, 1)
            = TotalMatched + TotalUnmatched

\* C2 amended: after all sales are processed, sum(sharesOriginal) -
\* sum(sharesRemaining) = sum(sharesMatched): unmatched shares are taken from
\* no lot; they are accounted for on the sale side, sum(sale share counts) =
\* sum(sharesMatched) + sum(reported unmatched shares)
C2_Conservation ==
    MatchReturned =>
        /\ TotalShares(buy_df) - SumSeq(buy_remaining, 1)
              = TotalMatched
        /\ TotalShares(sale_df)
              = TotalMatched + TotalUnmatched

\* sales that exceed the open shares: part matched, part reported unmatched
C2_Witness ==
    /\ MatchReturned
    /\ Len(matched_results) >= 2
    /\ TotalUnmatched > 0
    /\ SumSeq(buy_remaining, 1) = 0

\* C3: for each sale the lots are walked in input order; a lot with no
\* shares remaining gets nothing; each visited lot gets min(outstanding sale
\* shares, lot.sharesRemaining); there is exactly one record per non-zero
\* allocation; the walk ends with the allocation that brings the outstanding
\* shares to 0; and a lot receives shares from a sale only if every earlier
\* lot has sharesRemaining = 0.
C3_FifoAllocation ==
    MatchRunning =>
        /\ \A k \in 1..Len(matched_results) :
              LET rec == matched_results[k]
                  outstanding == sale_df[rec.sale_idx].Shares
                                   - MatchedToSale(rec.sale_idx, k - 1)
                  remaining   == buy_df[rec.buy_idx].Shares
                                   - TakenFromLot(rec.buy_idx, k - 1)
              IN  /\ rec.Shares_Sold > 0
                  /\ remaining > 0
                  /\ rec.Shares_Sold = Min(outstanding, remaining)
                  /\ \A i \in 1..(rec.buy_idx - 1) :
                        buy_df[i].Shares - TakenFromLot(i, k) = 0
                  /\ \A j \in 1..(k - 1) :
                        \/ matched_results[j].sale_idx < rec.sale_idx
                        \/ /\ matched_results[j].sale_idx = rec.sale_idx
                           /\ matched_results[j].buy_idx < rec.buy_idx
        /\ \A i \in 1..Len(buy_df) :
              buy_remaining[i] = buy_df[i].Shares - TakenFromLot(i, Len(matched_results))
        /\ (mpc = "walk" /\ MatchedToSale(sale_idx, Len(matched_results)) > 0)
              => shares_to_sell > 0
        /\ mpc = "sale_end" => shares_to_sell = 0

\* the example of the claim: lots of 50 and 50, one sale of 70
C3_Witness ==
    /\ MatchReturned
    /\ Len(buy_df) = 2 /\ buy_df[1].Shares = 500 /\ buy_df[2].Shares = 500
    /\ Len(sale_df) = 1 /\ sale_df[1].Shares = 700
    /\ Len(matched_results) = 2
    /\ matched_results[1].buy_idx = 1 /\ matched_results[1].Shares_Sold = 500
    /\ matched_results[2].buy_idx = 2 /\ matched_results[2].Shares_Sold = 200
    /\ buy_remaining = <<0, 300>>

----------------------------------------------------------------------------
(* Claims about match_sales_to_purchases: gains.                           *)

LongTermRecords == { k \in 1..Len(matched_results) : matched_results[k].Gain_Type = "LTCG" }

ShortTermRecords == { k \in 1..Len(matched_results) : matched_results[k].Gain_Type = "STCG" }

GainPartition ==
    /\ LongTermRecords \cap ShortTermRecords = {}
    /\ LongTermRecords \cup ShortTermRecords = 1..Len(matched_results)

\* C4 as stated: every record is LTCG iff the months it carries in 'Holding
\* Period (Months)' are >= 24 (the field is in tenths of a month), STCG
\* otherwise, and the two sets partition the records
C4_Original ==
    /\ \A k \in 1..Len(matched_results) :
          matched_results[k].Gain_Type = "LTCG" <=> matched_results[k].Holding_Months >= 240
    /\ GainPartition

\* C4 amended: every record is LTCG iff holdingDays / 30.44 >= 24 on the
\* unrounded quotient (that is, holdingDays >= 731), STCG otherwise, where
\* holdingDays is the whole days from 'Purchase Date' to 'Sale Date'; the
\* record's 'Holding Period (Months)' is that quotient rounded to one decimal
\* and so can read 24.0 on an STCG record; the LTCG and STCG sets are
\* disjoint and together contain every record.
C4_Classification ==
    /\ \A k \in 1..Len(matched_results) :
          LET rec == matched_results[k]
          IN  /\ rec.Holding_Days = (rec.Sale_Date - rec.Purchase_Date) \div 1440
              /\ rec.Gain_Type = "LTCG" <=> rec.Holding_Days * 100 >= 24 * 3044
              /\ rec.Gain_Type = "LTCG" <=> rec.Holding_Days >= 731
              /\ rec.Gain_Type # "LTCG" <=> rec.Gain_Type = "STCG"
              /\ 2 * 3044 * rec.Holding_Months - 3044 <= 2 * 1000 * rec.Holding_Days
              /\ 2 * 1000 * rec.Holding_Days <= 2 * 3044 * rec.Holding_Months + 3044
    /\ GainPartition

\* a lot held 730 days: 23.98 months, shown as 24.0, short-term
C4_Witness ==
    \E k \in 1..Len(matched_results) :
        /\ matched_results[k].Holding_Days = 730
        /\ matched_results[k].Holding_Months = 240
        /\ matched_results[k].Gain_Type = "STCG"

\* the gain of record k on the lot and sale prices the matching used, in
\* 1/1000 rupee
UnroundedGain(k) ==
    LET rec == matched_results[k]
    IN  rec.Shares_Sold * (sale_df[rec.sale_idx].FMV_INR - buy_df[rec.buy_idx].FMV_INR)

RECURSIVE SumUnroundedGains(_)
SumUnroundedGains(k) == IF k = 0 THEN 0 ELSE UnroundedGain(k) + SumUnroundedGains(k - 1)

\* C5: no value used in further computation is rounded: the per-share INR
\* price the matching takes from the buy table and from the sale table is
\* the unrounded foreignPrice x rate, and the total gain of the instrument
\* class is the sum of the unrounded per-match gains.
C5_Original ==
    /\ \A i \in 1..Len(buy_df) :
          buy_df[i].rate.found
              => buy_df[i].FMV_INR * 100 = buy_rows[i].fmv_usd * buy_df[i].rate.rate
    /\ \A i \in 1..Len(sale_df) :
          sale_df[i].rate.found
              => sale_df[i].FMV_INR * 100 = sale_rows[i].fmv_usd * sale_df[i].rate.rate
    /\ mpc = "summed" => totals.gain * 10 = SumUnroundedGains(Len(matched_results))

\* C6: on every record purchaseCost = sharesMatched x lot price, saleProceeds
\* = sharesMatched x sale price, and 'Capital Gain/Loss (INR)' = 'Total Sale
\* Proceeds (INR)' - 'Total Purchase Cost (INR)'.
C6_Original ==
    \A k \in 1..Len(matched_results) :
        LET rec == matched_results[k]
        IN  /\ rec.Total_Purchase_Cost * 10
                  = rec.Shares_Sold * buy_df[rec.buy_idx].FMV_INR
            /\ rec.Total_Sale_Proceeds * 10
                  = rec.Shares_Sold * sale_df[rec.sale_idx].FMV_INR
            /\ rec.Capital_Gain = rec.Total_Sale_Proceeds - rec.Total_Purchase_Cost

\* the example run: one lot of 100 shares at 1000 INR (10.00 USD at 100.00)
\* bought 2022-01-10, one sale of 60 shares at 1500 INR on 2024-02-15
C7_ExampleRun ==
    /\ MatchReturned
    /\ rates_df = <<[DATE |-> Timestamp(2021, 12, 1, 9, 0), TT_BUY |-> 10000]>>
    /\ buy_rows = <<[cell |-> "date", date |-> Timestamp(2022, 1, 10, 0, 0),
                     fmv_usd |-> 1000, shares |-> 1000]>>
    /\ sale_rows = <<[cell |-> "date", date |-> Timestamp(2024, 2, 15, 0, 0),
                      fmv_usd |-> 1500, shares |-> 600]>>

\* what the example expects, but for the months
C7_ExampleOutcome ==
    /\ Len(matched_results) = 1
    /\ buy_df[1].FMV_INR = 100000
    /\ sale_df[1].FMV_INR = 150000
    /\ matched_results[1].Shares_Sold = 600
    /\ matched_results[1].Total_Purchase_Cost = 6000000
    /\ matched_results[1].Total_Sale_Proceeds = 9000000
    /\ matched_results[1].Capital_Gain = 3000000
    /\ matched_results[1].Holding_Days
          = DaysFromCivil(2024, 2, 15) - DaysFromCivil(2022, 1, 10)
    /\ matched_results[1].Gain_Type = "LTCG"
    /\ buy_remaining = <<400>>
    /\ warnings = <<>>

\* C7 as stated: the example yields one record, 60 shares, cost 60000,
\* proceeds 90000, gain 30000, LTCG, lot left with 40, and holdingMonths of
\* about 25.6
C7_Original ==
    C7_ExampleRun => C7_ExampleOutcome /\ matched_results[1].Holding_Months = 256

\* C7 amended: the same example and outcome, with holdingDays = 766 and
\* holdingMonths = 766 / 30.44, about 25.2
C7_Example ==
    C7_ExampleRun =>
        /\ C7_ExampleOutcome
        /\ matched_results[1].Holding_Days = 766
        /\ matched_results[1].Holding_Months = 252

C7_Witness == C7_ExampleRun /\ matched_results[1].Shares_Sold = 600 /\ mpc = "summed"

----------------------------------------------------------------------------
(* Claims about unmatched shares.                                          *)

\* what C8 says of a run that has entered match_sales_to_purchases and has
\* not been abandoned
UnmatchedHandled ==
    /\ \A s \in 1..(sale_idx - 1) :
          LET unmatched == sale_df[s].Shares - MatchedToSale(s, Len(matched_results))
          IN  /\ unmatched >= 0
              /\ unmatched > 0 <=>
                    \E w \in 1..Len(warnings) :
                        warnings[w] = [sale |-> s, unmatched |-> unmatched]
    /\ \A i \in 1..Len(buy_remaining) :
          /\ buy_remaining[i] >= 0
          /\ TakenFromLot(i, Len(matched_results)) <= buy_df[i].Shares
    /\ Len(buy_remaining) = Len(buy_df)
    /\ MatchReturned => sale_idx = Len(sale_df) + 1

\* C8: a sale left with outstanding shares once all lots are exhausted is
\* warned about, gets no record and no synthetic lot for the excess, leaves
\* every lot at sharesRemaining >= 0, and the remaining sales are processed:
\* the run is never abandoned over unmatched shares.
C8_Original ==
    (sale_df # <<>> /\ mpc \notin {"start", "buy_done", "sale_done"}) =>
        /\ mpc # "error"
        /\ UnmatchedHandled

\* the same with at least one lot in the buy table
C8_WithLots ==
    (sale_df # <<>> /\ buy_df # <<>> /\ mpc \notin {"start", "buy_done", "sale_done"}) =>
        /\ mpc # "error"
        /\ UnmatchedHandled

----------------------------------------------------------------------------
(* Claims about process_cash_sheet.                                        *)

\* C9 as stated: for every cash ledger the reported peak INR value is >= the
\* reported opening and closing combined INR values
C9_Original ==
    cash_out.status = "returned" =>
        /\ cash_out.summary.Peak_Combined_INR >= cash_out.summary.Opening_Combined_INR
        /\ cash_out.summary.Peak_Combined_INR >= cash_out.summary.Closing_Combined_INR

\* C9 amended: for every cash ledger with an opening and a closing row, for
\* which process_cash_sheet computes a peak (Peak Date is not 'N/A'), the
\* reported peak INR value is >= the reported opening and closing combined
\* INR values; without one of the two rows the peak is reported as 0 whatever
\* the opening or closing value.
C9_PeakBounds ==
    (cash_out.status = "returned" /\ ~cash_out.summary.Peak_Date.na) =>
        /\ cash_out.summary.Peak_Combined_INR >= cash_out.summary.Opening_Combined_INR
        /\ cash_out.summary.Peak_Combined_INR >= cash_out.summary.Closing_Combined_INR
        /\ ~cash_out.summary.Opening_Date.na
        /\ ~cash_out.summary.Closing_Date.na

\* a ledger whose peak is a cash transaction between lower opening and
\* closing values
C9_Witness ==
    /\ cash_out.status = "returned"
    /\ ~cash_out.summary.Peak_Date.na
    /\ cash_out.summary.Peak_Combined_INR > cash_out.summary.Opening_Combined_INR
    /\ cash_out.summary.Peak_Combined_INR > cash_out.summary.Closing_Combined_INR
    /\ cash_out.summary.Closing_Combined_INR > cash_out.summary.Opening_Combined_INR
    /\ cash_out.summary.Opening_Combined_INR > 0

\* the dates get_exchange_rate has no rate for
RateAbsent(d) == Qualifying(d) = {}

\* C10: a missing rate is recoverable in process_cash_sheet: the call
\* returns its tables, every detail row whose date has no rate carries INR 0
\* with the rate flagged 'N/A', a summary value whose date has no rate is 0,
\* and with an opening and a closing row the summary still has a peak.
C10_Original ==
    cpc = "done" =>
        /\ cash_out.status = "returned"
        /\ Len(cash_out.results) = Len(cash_rows)
        /\ \A i \in 1..Len(cash_out.results) :
              RateAbsent(cash_rows[i].date) =>
                  /\ cash_out.results[i].Exchange_Rate = None
                  /\ cash_out.results[i].Combined_INR = 0
        /\ (\E i, j \in 1..Len(cash_rows) :
                cash_rows[i].type = "opening" /\ cash_rows[j].type = "closing")
              => ~cash_out.summary.Peak_Date.na

\* the same for the ledgers all of whose dates have a rate
C10_RatesPresent ==
    (cpc = "done" /\ \A i \in 1..Len(cash_rows) : ~RateAbsent(cash_rows[i].date)) =>
        /\ cash_out.status = "returned"
        /\ Len(cash_out.results) = Len(cash_rows)

\* the buy and sale rows: no rate, INR amounts 0, rate flagged 'N/A'
C10_BuySaleRows ==
    /\ \A i \in 1..Len(buy_df) :
          RateAbsent(buy_df[i].Reference_Date) =>
              buy_df[i].rate = None /\ buy_df[i].FMV_INR = 0 /\ buy_df[i].Total_INR = 0
    /\ \A i \in 1..Len(sale_df) :
          RateAbsent(sale_df[i].Reference_Date) =>
              sale_df[i].rate = None /\ sale_df[i].FMV_INR = 0 /\ sale_df[i].Total_INR = 0

----------------------------------------------------------------------------
(* Claims about get_last_day_of_preceding_month.                           *)

\* the year is a leap year of the Gregorian calendar
IsLeapYear(y) == (y % 4 = 0 /\ y % 100 # 0) \/ y % 400 = 0

\* number of days of month m of year y
DaysInMonth(y, m) ==
    IF m = 2 THEN (IF IsLeapYear(y) THEN 29 ELSE 28)
    ELSE IF m \in {4, 6, 9, 11} THEN 30
    ELSE 31

\* C12: for any date in month M of year Y, get_last_day_of_preceding_month
\* returns the last calendar day of month M-1 (December 31 of year Y-1 when
\* M is January); the result is strictly before the first day of month M
\* and its calendar day is exactly one day before it.
C12_LastDayOfPrecedingMonth ==
    lpc = "done" =>
        LET given == CivilFromDays(given_date \div MinutesPerDay)
            res   == CivilFromDays(last_day \div MinutesPerDay)
            first == DaysFromCivil(given.y, given.m, 1)
        IN  /\ res.m = (IF given.m = 1 THEN 12 ELSE given.m - 1)
            /\ res.y = (IF given.m = 1 THEN given.y - 1 ELSE given.y)
            /\ res.d = DaysInMonth(res.y, res.m)
            /\ last_day < first * MinutesPerDay
            /\ last_day \div MinutesPerDay = first - 1

\* 2025-01-15 gives 2024-12-31, and a date in March of a leap year gives
\* February 29
C12_Witness ==
    /\ lpc = "done"
    /\ \/ /\ given_date = Timestamp(2025, 1, 15, 0, 0)
          /\ last_day = Timestamp(2024, 12, 31, 0, 0)
       \/ /\ given_date = Timestamp(2024, 3, 31, 15, 30)
          /\ last_day = Timestamp(2024, 2, 29, 15, 30)

----------------------------------------------------------------------------
(* Claims about the valuation of sheet rows.                               *)

\* r is what the rate table holds for D: the rate and date of a row with
\* rate > 0 on or before D that no other such row is later than, or None
\* when there is no such row
IsRateOnOrBefore(r, D) ==
    /\ r.found <=> Qualifying(D) # {}
    /\ r.found =>
          \E i \in Qualifying(D) :
              /\ r.rate = rates_df[i].TT_BUY
              /\ r.date = rates_df[i].DATE
              /\ \A j \in Qualifying(D) : rates_df[j].DATE <= rates_df[i].DATE
    /\ ~r.found => r = None

\* reported is exact / unit rounded to the nearest whole number
IsRounded(reported, exact, unit) ==
    /\ 2 * (exact - reported * unit) <= unit
    /\ 2 * (reported * unit - exact) <= unit

\* the rows of a sheet whose date cell holds a date, in sheet order
RowsWithDate(rows) ==
    LET HasDate(row) == row.cell = "date"
    IN  SelectSeq(rows, HasDate)

\* the dividend table has been produced
DividendsValued == mpc \notin {"begin", "error"}

\* the buy table has been produced
BuysValued == mpc \notin {"begin", "start", "error"} \/ (mpc = "error" /\ sale_df # <<>>)

\* the sale table has been produced
SalesValued == mpc \notin {"begin", "start", "buy_done", "error"} \/ (mpc = "error" /\ sale_df # <<>>)

\* the rate of every output row is the table's rate for the row's reported
\* reference date, and 'N/A' with INR amounts 0 when there is none
RatesOfRows ==
    /\ \A k \in 1..Len(dividend_results) :
          LET o == dividend_results[k]
          IN  /\ IsRateOnOrBefore(o.rate, o.Reference_Date)
              /\ ~o.rate.found => (o.rate = None /\ o.Value_INR = 0 /\ o.Tax_INR = 0)
    /\ \A k \in 1..Len(buy_df) :
          LET o == buy_df[k]
          IN  /\ IsRateOnOrBefore(o.rate, o.Reference_Date)
              /\ ~o.rate.found => (o.rate = None /\ o.FMV_INR = 0 /\ o.Total_INR = 0)
    /\ \A k \in 1..Len(sale_df) :
          LET o == sale_df[k]
          IN  /\ IsRateOnOrBefore(o.rate, o.Reference_Date)
              /\ ~o.rate.found => (o.rate = None /\ o.FMV_INR = 0 /\ o.Total_INR = 0)

\* the output rows carry the foreign amounts of the sheet rows
ForeignAmountsOfRows ==
    /\ DividendsValued =>
          /\ Len(dividend_results) = Len(RowsWithDate(div_rows))
          /\ \A k \in 1..Len(dividend_results) :
                /\ dividend_results[k].Value_Foreign = RowsWithDate(div_rows)[k].value
                /\ dividend_results[k].Tax_Foreign = RowsWithDate(div_rows)[k].tax
    /\ BuysValued =>
          /\ Len(buy_df) = Len(RowsWithDate(buy_rows))
          /\ \A k \in 1..Len(buy_df) :
                /\ buy_df[k].FMV_USD = RowsWithDate(buy_rows)[k].fmv_usd
                /\ buy_df[k].Shares = RowsWithDate(buy_rows)[k].shares
    /\ SalesValued =>
          /\ Len(sale_df) = Len(RowsWithDate(sale_rows))
          /\ \A k \in 1..Len(sale_df) :
                /\ sale_df[k].FMV_USD = RowsWithDate(sale_rows)[k].fmv_usd
                /\ sale_df[k].Shares = RowsWithDate(sale_rows)[k].shares

\* C11 as stated: for every dividend, buy and sale row each reported INR
\* amount equals foreignAmount x rate, rate being get_exchange_rate of the
\* reference date, and is 0 with rate and rate date 'N/A' when the lookup is
\* absent; the reported foreign total of a buy or sale row is price x shares
C11_Original ==
    /\ RatesOfRows
    /\ ForeignAmountsOfRows
    /\ \A k \in 1..Len(dividend_results) :
          LET o == dividend_results[k]
          IN  o.rate.found =>
                  /\ o.Value_INR * 100 = o.Value_Foreign * o.rate.rate
                  /\ o.Tax_INR * 100 = o.Tax_Foreign * o.rate.rate
    /\ \A k \in 1..Len(buy_df) :
          LET o == buy_df[k]
          IN  /\ o.Total_USD * 10 = o.FMV_USD * o.Shares
              /\ o.rate.found =>
                    /\ o.FMV_INR * 100 = o.FMV_USD * o.rate.rate
                    /\ o.Total_INR * 1000 = o.FMV_USD * o.Shares * o.rate.rate
    /\ \A k \in 1..Len(sale_df) :
          LET o == sale_df[k]
          IN  /\ o.Total_USD * 10 = o.FMV_USD * o.Shares
              /\ o.rate.found =>
                    /\ o.FMV_INR * 100 = o.FMV_USD * o.rate.rate
                    /\ o.Total_INR * 1000 = o.FMV_USD * o.Shares * o.rate.rate

\* C11 amended: each reported INR amount equals foreignAmount x rate rounded
\* to 2 decimals, rate being get_exchange_rate of the reference date, and is
\* 0 with rate and rate date 'N/A' when the lookup is absent; for buy and
\* sale rows the reported foreign total is price x shares rounded to 2
\* decimals, and the INR total is the unrounded price x shares x rate rounded
\* to 2 decimals
C11_Valuation ==
    /\ RatesOfRows
    /\ ForeignAmountsOfRows
    /\ \A k \in 1..Len(dividend_results) :
          LET o == dividend_results[k]
          IN  o.rate.found =>
                  /\ IsRounded(o.Value_INR, o.Value_Foreign * o.rate.rate, 100)
                  /\ IsRounded(o.Tax_INR, o.Tax_Foreign * o.rate.rate, 100)
    /\ \A k \in 1..Len(buy_df) :
          LET o == buy_df[k]
          IN  /\ IsRounded(o.Total_USD, o.FMV_USD * o.Shares, 10)
              /\ o.rate.found =>
                    /\ IsRounded(o.FMV_INR, o.FMV_USD * o.rate.rate, 100)
                    /\ IsRounded(o.Total_INR, o.FMV_USD * o.Shares * o.rate.rate, 1000)
    /\ \A k \in 1..Len(sale_df) :
          LET o == sale_df[k]
          IN  /\ IsRounded(o.Total_USD, o.FMV_USD * o.Shares, 10)
              /\ o.rate.found =>
                    /\ IsRounded(o.FMV_INR, o.FMV_USD * o.rate.rate, 100)
                    /\ IsRounded(o.Total_INR, o.FMV_USD * o.Shares * o.rate.rate, 1000)

\* a dividend of 10.01 USD at 83.17 reported as 832.53, another dividend
\* with no rate, and a buy row of 0.4 shares whose total 4.004 USD is reported
\* as 4.00 and valued 333.01
C11_Witness ==
    /\ SalesValued
    /\ \E k \in 1..Len(dividend_results) :
          /\ dividend_results[k].rate.found
          /\ dividend_results[k].rate.rate = 8317
          /\ dividend_results[k].Value_INR = 83253
    /\ \E k \in 1..Len(dividend_results) : dividend_results[k].rate = None
    /\ \E k \in 1..Len(buy_df) :
          /\ buy_df[k].Total_USD = 400
          /\ buy_df[k].Total_INR = 33301
    /\ sale_df # <<>>

----------------------------------------------------------------------------
(* Claims about rows whose date cannot be parsed.                          *)

\* a sheet's row loop was left by an exception and main gave the batch up
SheetAborted == mpc = "error" /\ sale_df = <<>>

\* the tables hold one record per row with a date, in sheet order
OneRecordPerValidRow ==
    /\ DividendsValued =>
          /\ Len(dividend_results) = Len(RowsWithDate(div_rows))
          /\ \A k \in 1..Len(dividend_results) :
                dividend_results[k].Transaction_Date = RowsWithDate(div_rows)[k].date
    /\ BuysValued =>
          /\ Len(buy_df) = Len(RowsWithDate(buy_rows))
          /\ \A k \in 1..Len(buy_df) :
                buy_df[k].Transaction_Date = RowsWithDate(buy_rows)[k].date
    /\ SalesValued =>
          /\ Len(sale_df) = Len(RowsWithDate(sale_rows))
          /\ \A k \in 1..Len(sale_df) :
                sale_df[k].Transaction_Date = RowsWithDate(sale_rows)[k].date

\* C16: a row whose date cannot be parsed (free text or an empty cell) is
\* skipped and produces no record, all other rows of the sheet are still
\* processed, and the output table holds exactly one record per valid row,
\* in input order: no sheet's processing is given up over such a row.
C16_Original ==
    /\ ~SheetAborted
    /\ OneRecordPerValidRow

\* the same for sheets whose unparseable dates are all text
C16_TextRowsSkipped ==
    (\A i \in 1..Len(div_rows) : div_rows[i].cell # "blank")
        /\ (\A i \in 1..Len(buy_rows) : buy_rows[i].cell # "blank")
        /\ (\A i \in 1..Len(sale_rows) : sale_rows[i].cell # "blank")
    => /\ ~SheetAborted
       /\ OneRecordPerValidRow

\* a text row between two rows with dates has been skipped
C16_TextRowsReached ==
    /\ SalesValued
    /\ Len(buy_rows) = 2 /\ buy_rows[1].cell = "text" /\ buy_rows[2].cell = "date"
    /\ Len(buy_df) = 1
    /\ Len(div_rows) = 2 /\ div_rows[1].cell = "date" /\ div_rows[2].cell = "text"
    /\ Len(dividend_results) = 1

----------------------------------------------------------------------------
(* Claims about the reference date of a valuation.                         *)

\* the day before the first day of the month of d, at d's time of day
MonthEndBefore(d) ==
    LET c == CivilFromDays(d \div MinutesPerDay)
    IN  (DaysFromCivil(c.y, c.m, 1) - 1) * MinutesPerDay + (d % MinutesPerDay)

\* dividend, buy and sale rows: the rate is the table's rate for the last
\* day of the month before the transaction date
MonthEndPolicy ==
    /\ \A k \in 1..Len(dividend_results) :
          LET o == dividend_results[k]
          IN  /\ o.Reference_Date = MonthEndBefore(o.Transaction_Date)
              /\ IsRateOnOrBefore(o.rate, MonthEndBefore(o.Transaction_Date))
    /\ \A k \in 1..Len(buy_df) :
          LET o == buy_df[k]
          IN  /\ o.Reference_Date = MonthEndBefore(o.Transaction_Date)
              /\ IsRateOnOrBefore(o.rate, MonthEndBefore(o.Transaction_Date))
    /\ \A k \in 1..Len(sale_df) :
          LET o == sale_df[k]
          IN  /\ o.Reference_Date = MonthEndBefore(o.Transaction_Date)
              /\ IsRateOnOrBefore(o.rate, MonthEndBefore(o.Transaction_Date))

\* asset-ledger and cash-ledger rows: the rate is the table's rate for the
\* row's own date and the row's INR value is its USD value at that rate
OwnDatePolicy ==
    /\ \A k \in 1..Len(fa_out.results) :
          LET o == fa_out.results[k]
          IN  /\ IsRateOnOrBefore(o.Exchange_Rate, o.Date)
              /\ IF o.Exchange_Rate.found
                 THEN IsRounded(o.Market_Value_INR,
                                o.Market_Value_USD * o.Exchange_Rate.rate, 100)
                 ELSE o.Market_Value_INR = 0
    /\ ~fa_out.summary.Opening_Date.na =>
          \E k \in 1..Len(fa_out.results) :
              /\ fa_out.results[k].Type = "opening"
              /\ fa_out.results[k].Date = fa_out.summary.Opening_Date.date
              /\ fa_out.summary.Opening_Value_INR = fa_out.results[k].Market_Value_INR
    /\ ~fa_out.summary.Closing_Date.na =>
          \E k \in 1..Len(fa_out.results) :
              /\ fa_out.results[k].Type = "closing"
              /\ fa_out.results[k].Date = fa_out.summary.Closing_Date.date
              /\ fa_out.summary.Closing_Value_INR = fa_out.results[k].Market_Value_INR
    /\ \A k \in 1..Len(cash_out.results) :
          LET o == cash_out.results[k]
          IN  /\ IsRateOnOrBefore(o.Exchange_Rate, o.Date)
              /\ IF o.Exchange_Rate.found
                 THEN IsRounded(o.Combined_INR, o.Combined_USD * o.Exchange_Rate.rate, 100)
                 ELSE o.Combined_INR = 0

\* the asset ledger's positive cash entries, each at the rate of its own
\* date, in 1e-4 rupee
PositiveCashAtOwnDates ==
    SumSeq([k \in 1..Len(fa_out.results) |->
               LET o == fa_out.results[k]
               IN  IF o.Type = "cash" /\ o.Cash_USD > 0 /\ o.Exchange_Rate.found
                   THEN o.Cash_USD * o.Exchange_Rate.rate ELSE 0], 1)

\* the asset ledger's positive cash entries in cents
PositiveCashUsd ==
    SumSeq([k \in 1..Len(fa_out.results) |->
               LET o == fa_out.results[k]
               IN  IF o.Type = "cash" /\ o.Cash_USD > 0 THEN o.Cash_USD ELSE 0], 1)

\* C13 as stated: dividend, buy and sale rows take the rate of the last day
\* of the preceding month; every asset-ledger and cash-ledger event
\* (opening, closing, share addition, cash entry) is valued at the rate of
\* its own transaction date
C13_Original ==
    /\ MonthEndPolicy
    /\ OwnDatePolicy
    /\ fpc = "done" =>
          IsRounded(fa_out.summary.Positive_Cash_INR, PositiveCashAtOwnDates, 100)

\* C13 amended: dividend, buy and sale rows take the rate of the last day of
\* the preceding month; every asset-ledger and cash-ledger row carries the
\* rate of its own transaction date and its market or combined value is
\* valued at that rate, with no month-end shift; the cash entries of the
\* asset ledger are not valued one by one: the sum of the positive ones is
\* valued at the rate of the closing row's date, and is 0 without a closing
\* row.
C13_ReferenceDates ==
    /\ MonthEndPolicy
    /\ OwnDatePolicy
    /\ fpc = "done" =>
          /\ fa_out.summary.Positive_Cash_USD = PositiveCashUsd
          /\ IF fa_out.summary.Closing_Date.na THEN fa_out.summary.Positive_Cash_INR = 0
             ELSE \E k \in 1..Len(fa_out.results) :
                      LET o == fa_out.results[k]
                      IN  /\ o.Type = "closing"
                          /\ o.Date = fa_out.summary.Closing_Date.date
                          /\ IF o.Exchange_Rate.found
                             THEN IsRounded(fa_out.summary.Positive_Cash_INR,
                                            PositiveCashUsd * o.Exchange_Rate.rate, 100)
                             ELSE fa_out.summary.Positive_Cash_INR = 0

\* a dividend of 2023-05-15 valued at 83.17, the rate of 2023-04-28, while
\* the cash-ledger row of 2023-05-15 and the asset ledger's closing row
\* carry 90.00, and a positive cash entry of 2023-01-01 (rate 80.00) valued
\* at the closing date's 90.00
C13_Witness ==
    /\ fpc = "done" /\ cpc = "done"
    /\ \E k \in 1..Len(dividend_results) :
          /\ dividend_results[k].Transaction_Date = Timestamp(2023, 5, 15, 0, 0)
          /\ dividend_results[k].rate.rate = 8317
    /\ buy_df # <<>> /\ buy_df[1].rate.rate = 8317
    /\ \E k \in 1..Len(fa_out.results) :
          /\ fa_out.results[k].Date = Timestamp(2023, 12, 31, 0, 0)
          /\ fa_out.results[k].Exchange_Rate.rate = 9000
    /\ \E k \in 1..Len(cash_out.results) :
          /\ cash_out.results[k].Date = Timestamp(2023, 5, 15, 0, 0)
          /\ cash_out.results[k].Exchange_Rate.rate = 9000
    /\ \E k \in 1..Len(fa_out.results) :
          /\ fa_out.results[k].Type = "cash"
          /\ fa_out.results[k].Exchange_Rate.rate = 8000
    /\ fa_out.summary.Positive_Cash_INR = 135000

----------------------------------------------------------------------------
(* Peak of the share holding (process_schedule_fa).                        *)

\* the value of day d of the replay in INR (paise) at rate r, rounded as the
\* summary rounds
DayValueInr(d, r) ==
    IF r.found THEN MulRoundDiv(fa_out.days[d].value, r.rate, 1000) ELSE 0

\* the days of the replay are the trading days of the price series, each
\* valued at Close x the balance used for it
DaysOfSeries ==
    /\ Len(fa_out.days) \in {0, Len(hist)}
    /\ \A d \in 1..Len(fa_out.days) :
          /\ fa_out.days[d].date = hist[d].date
          /\ fa_out.days[d].price = hist[d].Close
          /\ fa_out.days[d].value = hist[d].Close * fa_out.days[d].shares

\* day p of the replay is the one the summary reports as peak
IsReportedPeak(p) ==
    /\ ~fa_out.summary.Peak_Date.na
    /\ fa_out.summary.Peak_Date.date = Normalize(fa_out.days[p].date)
    /\ fa_out.summary.Peak_Price_USD = fa_out.days[p].price
    /\ \A r \in get_exchange_rate(fa_out.days[p].date, rates_df) :
          fa_out.summary.Peak_Value_INR = DayValueInr(p, r)

\* C14 as stated: no trading day's price x balance x rate of that day
\* exceeds the reported 'Peak Value (INR)'.
C14_Original ==
    fpc = "done" =>
        \A d \in 1..Len(fa_out.days) :
            \A r \in get_exchange_rate(fa_out.days[d].date, rates_df) :
                DayValueInr(d, r) <= fa_out.summary.Peak_Value_INR

\* C14 amended: when a peak is reported it is a trading day whose USD value
\* (price x balance used for the day) no other trading day exceeds, and
\* 'Peak Value (INR)' is that day's USD value at the rate of that day; the
\* INR values of the other days are not compared.
C14_PeakIsMaxUsd ==
    (fpc = "done" /\ ~fa_out.summary.Peak_Date.na) =>
        /\ DaysOfSeries
        /\ \E p \in 1..Len(fa_out.days) :
              /\ IsReportedPeak(p)
              /\ \A d \in 1..Len(fa_out.days) :
                    fa_out.days[d].value <= fa_out.days[p].value

\* a peak is reported while another trading day has a lower USD value and a
\* higher INR value
C14_Witness ==
    /\ fpc = "done"
    /\ \E p, d \in 1..Len(fa_out.days) :
          /\ IsReportedPeak(p)
          /\ fa_out.days[d].value < fa_out.days[p].value
          /\ \E r \in get_exchange_rate(fa_out.days[d].date, rates_df) :
                DayValueInr(d, r) > fa_out.summary.Peak_Value_INR

----------------------------------------------------------------------------
(* Ledgers without an opening or a closing row.                            *)

HasRowOfType(rows, t) == \E i \in 1..Len(rows) : rows[i].type = t

FaLacksEndpoint ==
    \/ ~HasRowOfType(ParsedRows(fa_rows), "opening")
    \/ ~HasRowOfType(ParsedRows(fa_rows), "closing")

CashLacksEndpoint ==
    \/ ~HasRowOfType(cash_rows, "opening")
    \/ ~HasRowOfType(cash_rows, "closing")

\* C15: when the ledger passed to process_schedule_fa or process_cash_sheet
\* has no opening row or no closing row, the peak computation is skipped
\* (Peak Date 'N/A', peak value 0, no timeline built) while the detail table
\* and the rest of the summary are still returned.
C15_PeakSkipped ==
    /\ (fpc = "done" /\ FaLacksEndpoint) =>
          /\ fa_out.status = "returned"
          /\ fa_out.summary.Peak_Date.na
          /\ fa_out.summary.Peak_Value_INR = 0
          /\ fa_out.summary.Peak_Price_USD = 0
          /\ fa_out.share_timeline = <<>>
          /\ fa_out.days = <<>>
          /\ Len(fa_out.results) = Len(ParsedRows(fa_rows))
          /\ fa_out.summary.Opening_Date.na <=> ~HasRowOfType(ParsedRows(fa_rows), "opening")
          /\ fa_out.summary.Closing_Date.na <=> ~HasRowOfType(ParsedRows(fa_rows), "closing")
          /\ fa_out.summary.Positive_Cash_USD = PositiveCashUsd
    /\ (cpc = "done" /\ CashLacksEndpoint) =>
          /\ cash_out.status = "returned"
          /\ cash_out.summary.Peak_Date.na
          /\ cash_out.summary.Peak_Combined_INR = 0
          /\ cash_out.summary.Peak_Combined_USD = 0
          /\ Len(cash_out.results) = Len(cash_rows)
          /\ cash_out.summary.Opening_Date.na <=> ~HasRowOfType(cash_rows, "opening")
          /\ cash_out.summary.Closing_Date.na <=> ~HasRowOfType(cash_rows, "closing")

\* an asset ledger holding shares and a closing row but no opening row, with
\* a price series at hand, and a cash ledger of a closing row alone, both
\* processed
C15_Witness ==
    /\ fpc = "done" /\ cpc = "done"
    /\ price_source = "ok" /\ hist # <<>>
    /\ HasRowOfType(fa_rows, "share") /\ HasRowOfType(fa_rows, "closing")
    /\ ~HasRowOfType(fa_rows, "opening")
    /\ HasRowOfType(cash_rows, "closing") /\ ~HasRowOfType(cash_rows, "opening")
    /\ fa_out.results # <<>> /\ cash_out.results # <<>>
    /\ ~fa_out.summary.Closing_Date.na
    /\ ~cash_out.summary.Closing_Date.na

----------------------------------------------------------------------------
(* Share balance in effect on a trading day.                               *)

\* the opening and share-addition rows of the ledger in date order, rows of
\* one date in ledger order
StepsByDate(rows) ==
    LET IsStep(row) == row.type \in {"opening", "share"}
    IN  SortedByDate(SelectSeq(rows, IsStep))

\* positions of the steps dated on or before the calendar day of day
StepsUpTo(steps, day) ==
    { k \in 1..Len(steps) : Normalize(steps[k].date) <= Normalize(day) }

\* cumulative share count of the latest step dated on or before day, 0 when
\* day predates every step
BalanceOn(rows, day) ==
    LET steps    == StepsByDate(rows)
        balances == ShareTimeline(steps, 1, 0)
        upto     == StepsUpTo(steps, day)
    IN  IF upto = {} THEN 0
        ELSE balances[CHOOSE k \in upto : \A j \in upto : j <= k].shares

\* C17: for every trading day of the price series, the share balance used
\* for that day is the cumulative share count of the latest timeline step
\* (opening or share addition) dated at or before that day, and 0 when the
\* day predates all steps, whatever the order of the ledger's rows.
C17_Original ==
    fpc = "done" =>
        \A d \in 1..Len(fa_out.days) :
            fa_out.days[d].shares = BalanceOn(ParsedRows(fa_rows), fa_out.days[d].date)

\* the opening and share-addition rows appear in the ledger in date order
StepsInDateOrder(rows) ==
    LET IsStep(row) == row.type \in {"opening", "share"}
    IN  SelectSeq(rows, IsStep) = StepsByDate(rows)

\* for a ledger whose opening and share-addition rows are in date order the
\* balance used for every trading day is the one in effect on that day
C17_InDateOrder ==
    (fpc = "done" /\ StepsInDateOrder(ParsedRows(fa_rows))) =>
        \A d \in 1..Len(fa_out.days) :
            fa_out.days[d].shares = BalanceOn(ParsedRows(fa_rows), fa_out.days[d].date)

\* a replay over a ledger in date order where the balance changes during
\* the year
C17_InDateOrderReached ==
    /\ fpc = "done"
    /\ StepsInDateOrder(ParsedRows(fa_rows))
    /\ \E d, e \in 1..Len(fa_out.days) :
          0 < fa_out.days[d].shares /\ fa_out.days[d].shares < fa_out.days[e].shares

----------------------------------------------------------------------------
(* Selection of the share peak.                                            *)

\* dayValueUsd of every trading day of the price series, the balance being
\* the one in effect on the day
TrueDayValues ==
    [d \in 1..Len(hist) |-> hist[d].Close * BalanceOn(ParsedRows(fa_rows), hist[d].date)]

\* dayValueUsd of every trading day of the price series, the balance being
\* the one the scan of the row-ordered timeline yields
UsedDayValues ==
    [d \in 1..Len(hist) |->
        hist[d].Close * SharesOnDate(ShareTimeline(ParsedRows(fa_rows), 1, 0),
                                     hist[d].date, 1, 0)]

\* the summary reports no peak
PeakNotComputed ==
    /\ fa_out.summary.Peak_Date.na
    /\ fa_out.summary.Peak_Value_INR = 0

\* the summary reports day p of the price series, worth vals[p] USD, as peak
PeakIsDay(vals, p) ==
    /\ ~fa_out.summary.Peak_Date.na
    /\ fa_out.summary.Peak_Date.date = Normalize(hist[p].date)
    /\ \A r \in get_exchange_rate(hist[p].date, rates_df) :
          fa_out.summary.Peak_Value_INR =
              IF r.found THEN MulRoundDiv(vals[p], r.rate, 1000) ELSE 0

\* the peak rule over the day values vals: the first day of maximal value
\* when the series is available and some day is worth more than 0, no peak
\* otherwise; never an error
PeakSelection(vals) ==
    /\ fa_out.status = "returned"
    /\ IF price_source = "ok" /\ \E d \in 1..Len(hist) : vals[d] > 0
       THEN \E p \in 1..Len(hist) :
               /\ \A d \in 1..Len(hist) : vals[d] <= vals[p]
               /\ \A d \in 1..(p - 1) : vals[d] < vals[p]
               /\ PeakIsDay(vals, p)
       ELSE PeakNotComputed

\* C18: with opening and closing rows present, the reported peak is the
\* first trading day whose dayValueUsd = price x balance is maximal over the
\* price series, 'Peak Value (INR)' is that day's USD value times the rate
\* looked up at that day (0 if the rate is absent), and when the price
\* series is empty or unavailable, or no day has a value > 0, the peak is
\* reported as not computed (Peak Date 'N/A', value 0) without an error.
C18_Original ==
    (fpc = "done" /\ ~FaLacksEndpoint) => PeakSelection(TrueDayValues)

\* the same rule holds of the day values built from the balances the scan
\* of the row-ordered timeline yields
C18_OverUsedBalances ==
    (fpc = "done" /\ ~FaLacksEndpoint) => PeakSelection(UsedDayValues)

\* a peak reported on the first of two trading days of equal, maximal value
C18_FirstOfEqualReached ==
    /\ fpc = "done"
    /\ \E p, d \in 1..Len(hist) :
          /\ p < d
          /\ UsedDayValues[p] = UsedDayValues[d]
          /\ \A e \in 1..Len(hist) : UsedDayValues[e] <= UsedDayValues[p]
          /\ PeakIsDay(UsedDayValues, p)
          /\ fa_out.summary.Peak_Value_INR > 0

\* no peak reported although opening and closing rows are present: the
\* price source is unavailable or the series is empty, or no day is worth
\* more than 0
C18_NotComputedReached ==
    /\ fpc = "done" /\ ~FaLacksEndpoint
    /\ PeakNotComputed
    /\ price_source = "ok" /\ hist # <<>>

----------------------------------------------------------------------------
(* Replay of the cash timeline (process_cash_sheet).                       *)

CashHasEndpoints ==
    HasRowOfType(cash_rows, "opening") /\ HasRowOfType(cash_rows, "closing")

\* the snapshot list: the opening balance, the running balance after each
\* cash transaction taken in date order, the closing balance; each valued at
\* the rate R gives for its own date (1e-4 rupee)
CashSnapshots(R) ==
    LET IsCash(row) == row.type = "cash"
        o   == cash_rows[LastOfType(cash_rows, "opening", Len(cash_rows))]
        c   == cash_rows[LastOfType(cash_rows, "closing", Len(cash_rows))]
        txs == SortedByDate(SelectSeq(cash_rows, IsCash))
        n   == Len(txs)
        deltas == [j \in 1..n |-> txs[j].espp + txs[j].rsu]
        usd(k) == IF k = 1 THEN o.espp + o.rsu
                  ELSE IF k = n + 2 THEN c.espp + c.rsu
                  ELSE o.espp + o.rsu + SumSeq(SubSeq(deltas, 1, k - 1), 1)
        day(k) == IF k = 1 THEN o.date
                  ELSE IF k = n + 2 THEN c.date
                  ELSE txs[k - 1].date
    IN  [k \in 1..(n + 2) |->
            [date |-> day(k), usd |-> usd(k), inr |-> ToInr(usd(k), R[day(k)])]]

\* the summary reports snapshot p of snaps as peak, p being the first
\* snapshot no other exceeds in INR
ReportsFirstMaximal(snaps) ==
    \E p \in 1..Len(snaps) :
        /\ \A k \in 1..Len(snaps) : snaps[k].inr <= snaps[p].inr
        /\ \A k \in 1..(p - 1) : snaps[k].inr < snaps[p].inr
        /\ cash_out.summary.Peak_Date = DateOrNA(TRUE, snaps[p].date)
        /\ cash_out.summary.Peak_Combined_USD = snaps[p].usd
        /\ cash_out.summary.Peak_Combined_INR = RoundDiv(snaps[p].inr, 100)

PeakOfSnapshots ==
    \E R \in Resolvers({ cash_rows[i].date : i \in 1..Len(cash_rows) }, rates_df) :
        ReportsFirstMaximal(CashSnapshots(R))

\* C19: when opening and closing are both present, process_cash_sheet
\* builds the snapshot list (opening balance, running balance after each
\* cash transaction in date order, closing balance), values each snapshot
\* at the rate of its own date, and reports the snapshot of maximal INR
\* value as the peak, the first one when several are maximal.
C19_Original ==
    (cpc = "done" /\ CashHasEndpoints) =>
        /\ cash_out.status = "returned"
        /\ PeakOfSnapshots

\* the same for the ledgers all of whose dates have a rate
C19_RatesPresent ==
    (/\ cpc = "done" /\ CashHasEndpoints
     /\ \A i \in 1..Len(cash_rows) : ~RateAbsent(cash_rows[i].date)) =>
        /\ cash_out.status = "returned"
        /\ PeakOfSnapshots

\* a peak reported on a cash transaction dated before the row above it in
\* the ledger
C19_RatesPresentReached ==
    /\ cpc = "done" /\ cash_out.status = "returned"
    /\ CashHasEndpoints
    /\ ~cash_out.summary.Peak_Date.na
    /\ \E i, j \in 1..Len(cash_rows) :
          /\ i < j
          /\ cash_rows[i].type = "cash" /\ cash_rows[j].type = "opening"
          /\ cash_out.summary.Peak_Date.date = Normalize(cash_rows[i].date)
          /\ cash_out.summary.Peak_Combined_INR > cash_out.summary.Opening_Combined_INR

----------------------------------------------------------------------------
(* Lot state over the sale sequence (match_sales_to_purchases).            *)

\* every lot holds between 0 and its original share count, what it lost is
\* what the records took from it, and no record belongs to a sale still to
\* come
LotsWithinBounds ==
    MatchRunning =>
        /\ Len(buy_remaining) = Len(buy_df)
        /\ \A i \in 1..Len(buy_remaining) :
              /\ 0 <= buy_remaining[i]
              /\ buy_remaining[i] <= buy_df[i].Shares
              /\ buy_remaining[i] = buy_df[i].Shares - TakenFromLot(i, Len(matched_results))
        /\ \A k \in 1..Len(matched_results) :
              IF mpc = "next_sale" THEN matched_results[k].sale_idx < sale_idx
              ELSE matched_results[k].sale_idx <= sale_idx

\* one step: no lot gains shares, a lot loses shares only to the sale being
\* walked and exactly what the record appended for it states, and the sale
\* position stays or moves to the next row
LotsOnlyDeplete ==
    /\ sale_idx' \in {sale_idx, sale_idx + 1}
    /\ buy_remaining # <<>> =>
          /\ Len(buy_remaining') = Len(buy_remaining)
          /\ \A i \in 1..Len(buy_remaining) : buy_remaining'[i] <= buy_remaining[i]
          /\ buy_remaining' # buy_remaining =>
                /\ mpc = "walk" /\ sale_idx' = sale_idx
                /\ Len(matched_results') = Len(matched_results) + 1
                /\ LET rec == matched_results'[Len(matched_results')]
                   IN  /\ rec.sale_idx = sale_idx
                       /\ \A i \in 1..Len(buy_remaining) :
                             buy_remaining[i] - buy_remaining'[i] =
                                 IF i = rec.buy_idx THEN rec.Shares_Sold ELSE 0

\* C20: the sales are processed in input order against one shared lot
\* state; at every step each lot satisfies 0 <= sharesRemaining <=
\* sharesOriginal and its sharesRemaining never increases, so a later sale
\* sees the lots exactly as depleted by the earlier sales.
C20_LotState == []LotsWithinBounds /\ [][LotsOnlyDeplete]_vars

\* two sales have drawn on the same lot one after the other, and the lot
\* still holds shares
C20_Witness ==
    /\ MatchReturned
    /\ Len(sale_df) = 2
    /\ \E j, k \in 1..Len(matched_results) :
          /\ j < k
          /\ matched_results[j].sale_idx = 1 /\ matched_results[k].sale_idx = 2
          /\ matched_results[j].buy_idx = 1 /\ matched_results[k].buy_idx = 1
    /\ 0 < buy_remaining[1]
    /\ buy_remaining[1] =
           buy_df[1].Shares - sale_df[1].Shares - sale_df[2].Shares

----------------------------------------------------------------------------
(* Per-sale accounting (match_sales_to_purchases).                         *)

\* the warnings printed for sale s
WarningsOf(s) == { w \in 1..Len(warnings) : warnings[w].sale = s }

\* the lot walk of the current sale is over and its warning not yet decided
WalkEnded ==
    \/ mpc = "sale_end"
    \/ mpc = "walk" /\ buy_idx > Len(buy_remaining)

\* C21: for every sale with a non-negative share count, the Shares Sold of
\* the records emitted for it plus the unmatched amount left when its lot
\* walk ends equals the sale's share count, every record has Shares Sold > 0,
\* and a warning is printed for the sale exactly when that amount is > 0.
C21_PerSaleAccounting ==
    MatchRunning =>
        /\ \A k \in 1..Len(matched_results) : matched_results[k].Shares_Sold > 0
        /\ WalkEnded =>
              /\ MatchedToSale(sale_idx, Len(matched_results)) + shares_to_sell
                    = sale_df[sale_idx].Shares
              /\ WarningsOf(sale_idx) = {}
        /\ \A s \in 1..(sale_idx - 1) :
              LET unmatched == sale_df[s].Shares - MatchedToSale(s, Len(matched_results))
              IN  /\ unmatched > 0 <=> WarningsOf(s) # {}
                  /\ \A w, v \in WarningsOf(s) :
                        w = v /\ warnings[w].unmatched = unmatched

\* a sale matched in full over two lots and not warned about, followed by a
\* sale matched in part and warned about for the rest
C21_Witness ==
    /\ MatchReturned
    /\ Len(sale_df) = 2
    /\ MatchedToSale(1, Len(matched_results)) = sale_df[1].Shares
    /\ Cardinality({ k \in 1..Len(matched_results) : matched_results[k].sale_idx = 1 }) = 2
    /\ WarningsOf(1) = {}
    /\ MatchedToSale(2, Len(matched_results)) > 0
    /\ MatchedToSale(2, Len(matched_results)) < sale_df[2].Shares
    /\ WarningsOf(2) # {}

----------------------------------------------------------------------------
(* Allocation and dates (match_sales_to_purchases).                        *)

Max(a, b) == IF a >= b THEN a ELSE b

\* share counts of the lots and of the sales, nothing else
LotShares == [i \in 1..Len(buy_df) |-> buy_df[i].Shares]

SaleShares == [j \in 1..Len(sale_df) |-> sale_df[j].Shares]

\* shares of the lots 1..i taken together
LotEnd(i) == SumSeq(SubSeq(LotShares, 1, i), 1)

RECURSIVE SoldUpTo(_)
\* shares the sales 1..j draw from the lots: each sale draws its share
\* count or what the lots still hold, whichever is less
SoldUpTo(j) ==
    IF j = 0 THEN 0
    ELSE Min(SoldUpTo(j - 1) + SaleShares[j], LotEnd(Len(LotShares)))

\* first in, first out, from the share counts alone: the shares sale j
\* draws from lot i
FifoShare(j, i) ==
    Max(0, Min(LotEnd(i), SoldUpTo(j)) - Max(LotEnd(i - 1), SoldUpTo(j - 1)))

FifoPairs ==
    { p \in (1..Len(SaleShares)) \X (1..Len(LotShares)) : FifoShare(p[1], p[2]) > 0 }

----------------------------------------------------------------------------
(* Share total of the asset ledger (process_schedule_fa).                  *)

\* share count of the last opening row of rows (0 without one) plus the
\* share counts of the share-addition rows below it
SharesSinceOpening(rows) ==
    LET o == LastOfType(rows, "opening", Len(rows))
    IN  (IF o = 0 THEN 0 ELSE rows[o].shares)
        + SumSeq([k \in 1..Len(rows) |->
                     IF k > o /\ rows[k].type = "share" THEN rows[k].shares ELSE 0], 1)

\* C23: 'Total Shares' is the share count of the last opening row plus the
\* sum of the share-addition rows that follow it, over the rows whose date
\* parsed, in row order: an opening row overwrites the running total, share
\* additions above it are not counted, closing and cash rows add nothing.
C23_TotalShares ==
    fpc = "done" =>
        fa_out.summary.Total_Shares = SharesSinceOpening(ParsedRows(fa_rows))

\* a ledger of a share addition of 2.0, an opening row of 1.0 below it and a
\* closing row of 4.0: the total is 1.0
C23_Witness ==
    /\ fpc = "done"
    /\ Len(fa_rows) = 3
    /\ fa_rows[1].type = "share" /\ fa_rows[1].shares = 20
    /\ fa_rows[2].type = "opening" /\ fa_rows[2].cell = "date" /\ fa_rows[2].shares = 10
    /\ fa_rows[3].type = "closing" /\ fa_rows[3].shares = 40
    /\ fa_out.summary.Total_Shares = 10

============================================================================
